---- MODULE Spec2Model ----
(***************************************************************************)
(* Dynamic pricing of the bus ticketing backend:                           *)
(*   - DynamicPricing   (src/src/algorithms/pricing.ts), the pure price    *)
(*     function;                                                           *)
(*   - PricingService   (src/README.md, lines 456-751), the batch that     *)
(*     rewrites trip prices and the revert operation;                      *)
(*   - PricingScheduler (src/unnamed/part_003), the timer driven driver    *)
(*     with its boolean reentrancy guard.                                  *)
(*                                                                         *)
(* Numbers.  Every multiplier of the source (0.85, 1.25, 1.15, 1.3, 0.8,   *)
(* 1.1, 0.95, 1.5, 0.7) is a multiple of 0.05, so a multiplier m is kept   *)
(* as the integer 20*m ("twentieths") and a price computation is exact     *)
(* integer arithmetic over the common denominator 20^4 = 160000.  The      *)
(* source computes in IEEE doubles; the model computes the exact rational  *)
(* value.  A missing originalPrice (null / undefined) is NoPrice.          *)
(***************************************************************************)
EXTENDS Integers, Sequences, FiniteSets, TLC

VARIABLES
    isRunning,       \* PricingScheduler.isRunning
    intervalId,      \* PricingScheduler.intervalId (a timer handle or NoTimer)
    timers,          \* live setInterval timers of the event loop
    pendingInitial,  \* setTimeout(30 s) callbacks not fired yet, by start() call
    started,         \* number of start() calls so far (names the timer handles)
    runs,            \* executions of updateTripPrices, by slot
    store,           \* the trip table: trip id -> row
    rv,              \* the revertTripPrice call in progress
    log,             \* outcome of the last operation (return value, error, log line)
    arg,             \* input of a direct call to a DynamicPricing function
    ret,             \* value returned by that call
    pricingConfig    \* PricingService.pricingConfig

vars == <<isRunning, intervalId, timers, pendingInitial, started, runs, store,
          rv, log, arg, ret, pricingConfig>>

----------------------------------------------------------------------------
(* Bounds of the model *)

NTrips    == 3     \* rows of the trip table
MaxRuns   == 2     \* executions of updateTripPrices that may be in flight
MaxStarts == 2     \* calls to start()
MaxBook   == 2     \* bookings added to one trip while the model runs

----------------------------------------------------------------------------
(* DynamicPricing, src/src/algorithms/pricing.ts *)

\* originalPrice?: number -- the absent value.  Every read of originalPrice in
\* the source is a truthiness test, under which null, undefined and 0 agree.
NoPrice == 0

Min2(a, b) == IF a <= b THEN a ELSE b
Max2(a, b) == IF a >= b THEN a ELSE b

\* defaultConfig, multipliers in twentieths, thresholds in hours
DefaultConfig ==
    [ earlyBirdDiscount    |-> 17,     \* 0.85
      lastMinuteMultiplier |-> 25,     \* 1.25
      peakHourMultiplier   |-> 23,     \* 1.15
      highDemandMultiplier |-> 26,     \* 1.3
      lowDemandDiscount    |-> 16,     \* 0.8
      earlyBirdThreshold   |-> 48,
      lastMinuteThreshold  |-> 6,
      maxPriceIncrease     |-> 30,     \* 1.5
      maxPriceDecrease     |-> 14,     \* 0.7
      peakHours            |-> { [start |-> 7, end |-> 10],
                                 [start |-> 17, end |-> 20] } ]

\* { ...this.defaultConfig, ...config }: a partial config is a function on the
\* subset of the option names it sets.
MergeConfig(config) ==
    [ f \in DOMAIN DefaultConfig |->
        IF f \in DOMAIN config THEN config[f] ELSE DefaultConfig[f] ]

\* the two threshold tests taken the wrong way round
getTimeToDepatureFactor_Swapped(trip, config) ==
    IF trip.hoursUntilDeparture < config.earlyBirdThreshold
    THEN config.earlyBirdDiscount
    ELSE IF trip.hoursUntilDeparture > config.lastMinuteThreshold
         THEN config.lastMinuteMultiplier
         ELSE 20

\* hoursUntilDeparture > earlyBirdThreshold, then < lastMinuteThreshold, else 1.0
getTimeToDepatureFactor(trip, config) ==
    IF trip.hoursUntilDeparture > config.earlyBirdThreshold
    THEN config.earlyBirdDiscount
    ELSE IF trip.hoursUntilDeparture < config.lastMinuteThreshold
         THEN config.lastMinuteMultiplier
         ELSE 20

\* an occupancy of exactly 70% taken as high demand
getOccupancyFactor_Inclusive(trip, config) ==
    IF 10 * trip.bookings >= 7 * trip.totalSeats
    THEN config.highDemandMultiplier
    ELSE IF 10 * trip.bookings < 3 * trip.totalSeats
         THEN config.lowDemandDiscount
         ELSE 20

\* occupancyRate = bookings / totalSeats; rate > 0.7, rate < 0.3 are compared
\* cross-multiplied.  With totalSeats = 0 the source divides by zero: Infinity
\* (> 0.7) for bookings > 0 and NaN (every comparison false) for bookings = 0,
\* which the cross-multiplied comparisons reproduce.
getOccupancyFactor(trip, config) ==
    IF 10 * trip.bookings > 7 * trip.totalSeats
    THEN config.highDemandMultiplier
    ELSE IF 10 * trip.bookings < 3 * trip.totalSeats
         THEN config.lowDemandDiscount
         ELSE 20

\* the last hour of an interval left out
getPeakHourFactor_EndExclusive(trip, config) ==
    IF \E peak \in config.peakHours :
           trip.departureHour >= peak.start /\ trip.departureHour < peak.end
    THEN config.peakHourMultiplier
    ELSE 20

\* peakHours.some(peak => hour >= peak.start && hour <= peak.end)
getPeakHourFactor(trip, config) ==
    IF \E peak \in config.peakHours :
           trip.departureHour >= peak.start /\ trip.departureHour <= peak.end
    THEN config.peakHourMultiplier
    ELSE 20

\* a trip of exactly 24 hours taken as new
getBookingVelocityFactor_NewAt24(trip) ==
    IF trip.tripAge <= 24 /\ 10 * trip.bookings > 2 * trip.totalSeats
    THEN 22
    ELSE IF trip.tripAge > 72 /\ 10 * trip.bookings < 2 * trip.totalSeats
         THEN 19
         ELSE 20

\* tripAge < 24 && rate > 0.2 -> 1.1 ; tripAge > 72 && rate < 0.2 -> 0.95
getBookingVelocityFactor(trip) ==
    IF trip.tripAge < 24 /\ 10 * trip.bookings > 2 * trip.totalSeats
    THEN 22
    ELSE IF trip.tripAge > 72 /\ 10 * trip.bookings < 2 * trip.totalSeats
         THEN 19
         ELSE 20

\* the current price taken for the base whether or not an original is stored
BasePrice_Current(trip) == trip.price

\* const basePrice = trip.originalPrice || trip.price
BasePrice(trip) ==
    IF trip.originalPrice # NoPrice THEN trip.originalPrice ELSE trip.price

\* basePrice * timeFactor * occupancyFactor * peakHourFactor * velocityFactor,
\* in units of 1/160000
RawPrice(trip, config) ==
    BasePrice(trip) * getTimeToDepatureFactor(trip, config)
                    * getOccupancyFactor(trip, config)
                    * getPeakHourFactor(trip, config)
                    * getBookingVelocityFactor(trip)

\* basePrice * maxPriceIncrease and basePrice * maxPriceDecrease, in 1/160000
MaxPrice(trip, config) == BasePrice(trip) * config.maxPriceIncrease * 8000
MinPrice(trip, config) == BasePrice(trip) * config.maxPriceDecrease * 8000

\* the lower bound forgotten
ClampPrice_NoFloor(trip, config) ==
    Min2(MaxPrice(trip, config), RawPrice(trip, config))

\* Math.max(minPrice, Math.min(maxPrice, dynamicPrice)), in 1/160000
ClampPrice(trip, config) ==
    Max2(MinPrice(trip, config),
         Min2(MaxPrice(trip, config), RawPrice(trip, config)))

\* Math.round(x / 5) * 5 for x = n/160000, n >= 0: Math.round is
\* floor(y + 0.5), so round(n / 800000) = (2n + 800000) div 1600000.
RoundTo5(n) == ((2 * n + 800000) \div 1600000) * 5

calculateDynamicPrice(trip, config) ==
    RoundTo5(ClampPrice(trip, MergeConfig(config)))

\* Math.abs((newPrice - currentPrice) / currentPrice) * 100 >= threshold.
\* currentPrice = 0 divides by zero: NaN (false) when newPrice = 0 as well,
\* Infinity (true) otherwise.
Abs(x) == IF x < 0 THEN -x ELSE x

\* a change of exactly the threshold left out
shouldUpdatePrice_Strict(currentPrice, newPrice, threshold) ==
    IF currentPrice = 0
    THEN newPrice # 0
    ELSE 100 * Abs(newPrice - currentPrice) > threshold * Abs(currentPrice)

shouldUpdatePrice(currentPrice, newPrice, threshold) ==
    IF currentPrice = 0
    THEN newPrice # 0
    ELSE 100 * Abs(newPrice - currentPrice) >= threshold * Abs(currentPrice)

\* threshold: number = 2
DefaultThreshold == 2

\* Math.round(((finalPrice - trip.price) / trip.price) * 100 * 100) / 100, in
\* hundredths of a percent; Math.round(y) is floor(y + 0.5).  trip.price = 0
\* divides by zero: NaN when finalPrice = 0 as well, Infinity otherwise.
PriceChange(finalPrice, price) ==
    IF price = 0
    THEN IF finalPrice = 0 THEN "NaN" ELSE "Infinity"
    ELSE (20000 * (finalPrice - price) + price) \div (2 * price)

\* the final price computed without the config passed
getPricingFactors_DefaultPrice(trip, config) ==
    LET finalConfig == MergeConfig(config)
        finalPrice  == calculateDynamicPrice(trip, << >>)
    IN  [ timeFactor      |-> getTimeToDepatureFactor(trip, finalConfig),
          occupancyFactor |-> getOccupancyFactor(trip, finalConfig),
          peakHourFactor  |-> getPeakHourFactor(trip, finalConfig),
          velocityFactor  |-> getBookingVelocityFactor(trip),
          finalPrice      |-> finalPrice,
          priceChange     |-> PriceChange(finalPrice, trip.price) ]

\* the four factors under { ...defaultConfig, ...config }, in twentieths, and
\* finalPrice = this.calculateDynamicPrice(trip, config)
getPricingFactors(trip, config) ==
    LET finalConfig == MergeConfig(config)
        finalPrice  == calculateDynamicPrice(trip, config)
    IN  [ timeFactor      |-> getTimeToDepatureFactor(trip, finalConfig),
          occupancyFactor |-> getOccupancyFactor(trip, finalConfig),
          peakHourFactor  |-> getPeakHourFactor(trip, finalConfig),
          velocityFactor  |-> getBookingVelocityFactor(trip),
          finalPrice      |-> finalPrice,
          priceChange     |-> PriceChange(finalPrice, trip.price) ]

----------------------------------------------------------------------------
(* The trip table (the storage collaborator, prisma.trip) *)

Trips == 1 .. NTrips

\* an id that names no row
MissingTrip == NTrips + 1

\* The columns the model does not change: hours from now to departure, local
\* departure hour, hours since creation, seats of the bus, lifecycle status.
\* Of every four trips the first leaves in three days at noon and is ten
\* hours old, the second leaves in two hours at 8 am and is a hundred hours
\* old, the third is as the first but cancelled, the fourth is as the first
\* but leaves in more than seven days.
TripInfo(t) ==
    CASE t % 4 = 1 ->
           [ hoursUntilDeparture |-> 72, departureHour |-> 12, tripAge |-> 10,
             totalSeats |-> 4, status |-> "SCHEDULED" ]
      [] t % 4 = 2 ->
           [ hoursUntilDeparture |-> 2, departureHour |-> 8, tripAge |-> 100,
             totalSeats |-> 4, status |-> "SCHEDULED" ]
      [] t % 4 = 3 ->
           [ hoursUntilDeparture |-> 72, departureHour |-> 12, tripAge |-> 10,
             totalSeats |-> 4, status |-> "CANCELLED" ]
      [] OTHER ->
           [ hoursUntilDeparture |-> 200, departureHour |-> 12, tripAge |-> 10,
             totalSeats |-> 4, status |-> "SCHEDULED" ]

\* the price a trip is created with
InitPrice(t) == IF t % 2 = 1 THEN 1200 ELSE 101

\* PricingService.pricingConfig
PricingConfig == DefaultConfig

\* A row joined with its bus and its booking count, as findMany returns it
\* and as DynamicPricing reads it.
PricingTrip(t, row) ==
    [ id                  |-> t,
      price               |-> row.price,
      originalPrice       |-> row.originalPrice,
      bookings            |-> row.bookings,
      totalSeats          |-> TripInfo(t).totalSeats,
      hoursUntilDeparture |-> TripInfo(t).hoursUntilDeparture,
      departureHour       |-> TripInfo(t).departureHour,
      tripAge             |-> TripInfo(t).tripAge,
      status              |-> TripInfo(t).status ]

\* the status of the trip not tested
Eligible_AnyStatus(t) ==
    /\ TripInfo(t).hoursUntilDeparture >= 0
    /\ TripInfo(t).hoursUntilDeparture <= 7 * 24

\* where: status SCHEDULED, departureTime >= now, departureTime <= now + 7 days
Eligible(t) ==
    /\ TripInfo(t).status = "SCHEDULED"
    /\ TripInfo(t).hoursUntilDeparture >= 0
    /\ TripInfo(t).hoursUntilDeparture <= 7 * 24

RECURSIVE ListFrom(_, _)
ListFrom(t, table) ==
    IF t > NTrips THEN << >>
    ELSE IF Eligible(t)
         THEN << PricingTrip(t, table[t]) >> \o ListFrom(t + 1, table)
         ELSE ListFrom(t + 1, table)

\* getEligibleTrips(): the eligible rows, in id order
getEligibleTrips(table) == ListFrom(1, table)

----------------------------------------------------------------------------
(* PricingService.updateTripPrices, one execution per slot of runs *)

Slots == 1 .. MaxRuns

FreeRun ==
    [ pc |-> "free", kind |-> "none", trips |-> << >>, i |-> 0, newPrice |-> 0,
      updates |-> << >>, pricesUpdated |-> 0, failed |-> {} ]

InFlight(s) == runs[s].pc # "free"

FreeSlot == CHOOSE s \in Slots : ~InFlight(s) /\ \A r \in 1 .. s - 1 : InFlight(r)

\* the call pricingService.updateTripPrices(): runs up to the await of findMany
CallUpdateTripPrices(kind) ==
    [ runs EXCEPT ![FreeSlot] = [ FreeRun EXCEPT !.pc = "list", !.kind = kind ] ]

\* shouldUpdatePrice(trip.price, calculateDynamicPrice(trip, this.pricingConfig), 2)
Qualifies(trip) ==
    shouldUpdatePrice(trip.price, calculateDynamicPrice(trip, pricingConfig), 2)

\* The loop runs synchronously over the trips that do not qualify: the index
\* of the next trip at or after i whose update is awaited, Len + 1 if none.
NextWrite(trips, i) ==
    IF \E j \in i .. Len(trips) : Qualifies(trips[j])
    THEN CHOOSE j \in i .. Len(trips) :
             /\ Qualifies(trips[j])
             /\ \A k \in i .. j - 1 : ~Qualifies(trips[k])
    ELSE Len(trips) + 1

\* the current price stored as original price on every update
StoredOriginal_Current(trip) == trip.price

\* const originalPrice = trip.originalPrice || trip.price
StoredOriginal(trip) ==
    IF trip.originalPrice # NoPrice THEN trip.originalPrice ELSE trip.price

\* data: { price: newPrice, originalPrice: originalPrice }
UpdatedRow(row, trip, newPrice) ==
    [ row EXCEPT !.price = newPrice, !.originalPrice = StoredOriginal(trip) ]

\* getPriceChangeReason(factors): the reasons that reasons.join(', ') joins,
\* as a list; 'Price optimization' where there is none
getPriceChangeReason(factors) ==
    LET time      == IF factors.timeFactor < 20
                     THEN << "Early bird discount" >>
                     ELSE IF factors.timeFactor > 20
                          THEN << "Last-minute premium" >> ELSE << >>
        occupancy == IF factors.occupancyFactor > 20
                     THEN << "High demand" >>
                     ELSE IF factors.occupancyFactor < 20
                          THEN << "Low occupancy" >> ELSE << >>
        peak      == IF factors.peakHourFactor > 20
                     THEN << "Peak hour" >> ELSE << >>
        velocity  == IF factors.velocityFactor > 20
                     THEN << "Fast booking rate" >>
                     ELSE IF factors.velocityFactor < 20
                          THEN << "Slow booking rate" >> ELSE << >>
        reasons   == time \o occupancy \o peak \o velocity
    IN  IF reasons = << >> THEN << "Price optimization" >> ELSE reasons

\* the PricingUpdate pushed for a written trip, after the await of the write:
\* factors = getPricingFactors(trip, this.pricingConfig)
PricingUpdate(trip, newPrice) ==
    [ tripId |-> trip.id, oldPrice |-> trip.price, newPrice |-> newPrice,
      reason |-> getPriceChangeReason(getPricingFactors(trip, pricingConfig)) ]

\* return { totalTripsProcessed: trips.length, pricesUpdated, updates }
ResultOf(run) ==
    [ totalTripsProcessed |-> Len(run.trips),
      pricesUpdated       |-> run.pricesUpdated,
      updates             |-> run.updates ]

NoResult == [ totalTripsProcessed |-> 0, pricesUpdated |-> 0, updates |-> << >> ]

\* The scheduler's wrappers: the interval callback and runManualUpdate set the
\* guard and clear it in finally; the initial setTimeout callback does neither.
Guarded(kind) == kind \in { "tick", "manual" }

\* the guard reset at the end of the try block instead of in finally
FinallyIsRunning_NotOnThrow(kind, threw) ==
    IF Guarded(kind) /\ ~threw THEN FALSE ELSE isRunning

\* finally { this.isRunning = false } of the wrapper of this kind
FinallyIsRunning(kind, threw) == IF Guarded(kind) THEN FALSE ELSE isRunning

\* catch: runManualUpdate rethrows, the two timer callbacks only log
CatchOutcome(kind) == IF kind = "manual" THEN "thrown" ELSE "logged"

Event(op, outcome, trip, run) ==
    [ op |-> op, outcome |-> outcome, trip |-> trip,
      result |-> IF outcome = "returned" THEN ResultOf(run) ELSE NoResult,
      run |-> run ]

\* updateTripPrices returns or throws and its wrapper completes
Finish(s, run, threw) ==
    /\ runs' = [ runs EXCEPT ![s] = FreeRun ]
    /\ isRunning' = FinallyIsRunning(run.kind, threw)
    /\ log' = Event(run.kind,
                    IF threw THEN CatchOutcome(run.kind) ELSE "returned", 0, run)

\* after trip i - 1 is done: await the next update, or return
Continue(s, run, from) ==
    LET j == NextWrite(run.trips, from) IN
    IF j > Len(run.trips)
    THEN Finish(s, run, FALSE)
    ELSE /\ runs' = [ runs EXCEPT ![s] =
                        [ run EXCEPT !.pc = "write", !.i = j,
                            !.newPrice = calculateDynamicPrice(run.trips[j],
                                                               pricingConfig) ] ]
         /\ isRunning' = isRunning
         /\ log' = Event("batch", "awaiting", run.trips[j].id, FreeRun)

\* await this.getEligibleTrips() completes: the listing, or a storage error
\* that leaves the try block of updateTripPrices and is rethrown
ListDone(s, ok) ==
    /\ runs[s].pc = "list"
    /\ IF ok
       THEN Continue(s, [ runs[s] EXCEPT !.trips = getEligibleTrips(store) ], 1)
       ELSE Finish(s, runs[s], TRUE)
    /\ UNCHANGED <<intervalId, timers, pendingInitial, started, store, rv, arg, ret,
                   pricingConfig>>

\* the per-trip try/catch missing: a failed write leaves the loop
WriteDone_AbortOnFailure(s, ok) ==
    /\ runs[s].pc = "write"
    /\ LET run  == runs[s]
           trip == run.trips[run.i]
       IN IF ok
          THEN /\ store' = [ store EXCEPT ![trip.id] =
                               UpdatedRow(@, trip, run.newPrice) ]
               /\ Continue(s, [ run EXCEPT
                                  !.updates = Append(@, PricingUpdate(trip, run.newPrice)),
                                  !.pricesUpdated = @ + 1 ],
                           run.i + 1)
          ELSE /\ store' = store
               /\ Finish(s, [ run EXCEPT !.failed = @ \cup { trip.id } ], TRUE)
    /\ UNCHANGED <<intervalId, timers, pendingInitial, started, rv, arg, ret,
                   pricingConfig>>

\* await prisma.trip.update(...) of trip i completes: the row is written and
\* the update recorded, or the error is caught by the per-trip catch
WriteDone(s, ok) ==
    /\ runs[s].pc = "write"
    /\ LET run  == runs[s]
           trip == run.trips[run.i]
       IN IF ok
          THEN /\ store' = [ store EXCEPT ![trip.id] =
                               UpdatedRow(@, trip, run.newPrice) ]
               /\ Continue(s, [ run EXCEPT
                                  !.updates = Append(@, PricingUpdate(trip, run.newPrice)),
                                  !.pricesUpdated = @ + 1 ],
                           run.i + 1)
          ELSE /\ store' = store
               /\ Continue(s, [ run EXCEPT !.failed = @ \cup { trip.id } ],
                           run.i + 1)
    /\ UNCHANGED <<intervalId, timers, pendingInitial, started, rv, arg, ret,
                   pricingConfig>>

----------------------------------------------------------------------------
(* PricingScheduler, src/unnamed/part_003 *)

\* intervalId: NodeJS.Timeout | null = null
NoTimer == 0

NoEvent(op, outcome) == Event(op, outcome, 0, FreeRun)

\* start(): a new interval timer, whose handle overwrites intervalId, and a
\* 30 s timeout for the initial run
Start ==
    /\ started < MaxStarts
    /\ started' = started + 1
    /\ intervalId' = started + 1
    /\ timers' = timers \cup { started + 1 }
    /\ pendingInitial' = pendingInitial \cup { started + 1 }
    /\ log' = NoEvent("start", "started")
    /\ UNCHANGED <<isRunning, runs, store, rv, arg, ret,
                   pricingConfig>>

\* stop(): clearInterval(this.intervalId) if it is set
Stop ==
    /\ IF intervalId # NoTimer
       THEN /\ timers' = timers \ { intervalId }
            /\ intervalId' = NoTimer
            /\ log' = NoEvent("stop", "cleared")
       ELSE /\ UNCHANGED <<timers, intervalId>>
            /\ log' = NoEvent("stop", "no-op")
    /\ UNCHANGED <<isRunning, pendingInitial, started, runs, store, rv, arg, ret,
                   pricingConfig>>

\* the interval callback without its test of isRunning
IntervalTick_Unguarded(k) ==
    /\ k \in timers
    /\ k \notin pendingInitial
    /\ \E s \in Slots : ~InFlight(s)
    /\ isRunning' = TRUE
    /\ runs' = CallUpdateTripPrices("tick")
    /\ log' = NoEvent("tick", "called")
    /\ UNCHANGED <<intervalId, timers, pendingInitial, started, store, rv, arg, ret,
                   pricingConfig>>

\* The interval callback of timer k.  The 15 min interval and the 30 s timeout
\* of one start() are armed together, so the timeout fires first.
IntervalTick(k) ==
    /\ k \in timers
    /\ k \notin pendingInitial
    /\ IF isRunning
       THEN /\ log' = NoEvent("tick", "skipped")
            /\ UNCHANGED <<isRunning, runs>>
       ELSE /\ \E s \in Slots : ~InFlight(s)
            /\ isRunning' = TRUE
            /\ runs' = CallUpdateTripPrices("tick")
            /\ log' = NoEvent("tick", "called")
    /\ UNCHANGED <<intervalId, timers, pendingInitial, started, store, rv, arg, ret,
                   pricingConfig>>

\* The setTimeout callback of start() call k: calls updateTripPrices without
\* reading or writing isRunning.
InitialRun(k) ==
    /\ k \in pendingInitial
    /\ \E s \in Slots : ~InFlight(s)
    /\ pendingInitial' = pendingInitial \ { k }
    /\ runs' = CallUpdateTripPrices("initial")
    /\ log' = NoEvent("initial", "called")
    /\ UNCHANGED <<isRunning, intervalId, timers, started, store, rv, arg, ret,
                   pricingConfig>>

\* runManualUpdate(): throws while isRunning, else sets it and calls
RunManualUpdate ==
    /\ IF isRunning
       THEN /\ log' = NoEvent("manual", "rejected")
            /\ UNCHANGED <<isRunning, runs>>
       ELSE /\ \E s \in Slots : ~InFlight(s)
            /\ isRunning' = TRUE
            /\ runs' = CallUpdateTripPrices("manual")
            /\ log' = NoEvent("manual", "called")
    /\ UNCHANGED <<intervalId, timers, pendingInitial, started, store, rv, arg, ret,
                   pricingConfig>>

----------------------------------------------------------------------------
(* PricingService.revertTripPrice *)

IdleRevert == [ pc |-> "idle", tripId |-> 0, originalPrice |-> NoPrice ]

\* findUnique({ where: { id }, select: { originalPrice } }): null for no row
FindOriginalPrice(tripId) ==
    IF tripId \in Trips THEN store[tripId].originalPrice ELSE NoPrice

\* the original price left in place by the revert
RevertedRow_KeepsOriginal(row, originalPrice) ==
    [ row EXCEPT !.price = originalPrice ]

\* data: { price: trip.originalPrice, originalPrice: null }
RevertedRow(row, originalPrice) ==
    [ row EXCEPT !.price = originalPrice, !.originalPrice = NoPrice ]

\* revertTripPrice(tripId) up to the await of update: throws if
\* !trip?.originalPrice
RevertRead(tripId) ==
    /\ rv.pc = "idle"
    /\ IF FindOriginalPrice(tripId) = NoPrice
       THEN /\ rv' = rv
            /\ log' = Event("revert", "thrown", tripId, FreeRun)
       ELSE /\ rv' = [ pc |-> "update", tripId |-> tripId,
                       originalPrice |-> FindOriginalPrice(tripId) ]
            /\ log' = Event("revert", "awaiting", tripId, FreeRun)
    /\ UNCHANGED <<isRunning, intervalId, timers, pendingInitial, started, runs,
                   store, arg, ret,
                   pricingConfig>>

\* await prisma.trip.update(...) of the revert completes or fails
RevertWrite(ok) ==
    /\ rv.pc = "update"
    /\ rv' = IdleRevert
    /\ IF ok
       THEN /\ store' = [ store EXCEPT ![rv.tripId] =
                            RevertedRow(@, rv.originalPrice) ]
            /\ log' = Event("revert", "returned", rv.tripId, FreeRun)
       ELSE /\ store' = store
            /\ log' = Event("revert", "storage-error", rv.tripId, FreeRun)
    /\ UNCHANGED <<isRunning, intervalId, timers, pendingInitial, started, runs,
                   arg, ret,
                   pricingConfig>>

----------------------------------------------------------------------------
(* PricingService.updatePricingConfig *)

\* { ...this.pricingConfig, ...newConfig }
MergedPricingConfig(current, newConfig) ==
    [ f \in DOMAIN current \cup DOMAIN newConfig |->
        IF f \in DOMAIN newConfig THEN newConfig[f] ELSE current[f] ]

\* the configs an operator passes: the early bird discount taken away (1.0)
\* and given back (0.85)
NewConfigs == { [ earlyBirdDiscount |-> 20 ], [ earlyBirdDiscount |-> 17 ] }

UpdatePricingConfig(newConfig) ==
    /\ pricingConfig' = MergedPricingConfig(pricingConfig, newConfig)
    /\ log' = Event("config", "returned", 0, FreeRun)
    /\ UNCHANGED <<isRunning, intervalId, timers, pendingInitial, started, runs,
                   store, rv, arg, ret>>

----------------------------------------------------------------------------
(* The booking service adds a CONFIRMED or PENDING booking to a trip *)

\* createBooking throws for a trip that is not SCHEDULED or has left
Book(t) ==
    /\ store[t].bookings < MaxBook
    /\ IF TripInfo(t).status = "SCHEDULED" /\ TripInfo(t).hoursUntilDeparture > 0
       THEN /\ store' = [ store EXCEPT ![t].bookings = @ + 1 ]
            /\ log' = Event("book", "returned", t, FreeRun)
       ELSE /\ store' = store
            /\ log' = Event("book", "thrown", t, FreeRun)
    /\ UNCHANGED <<isRunning, intervalId, timers, pendingInitial, started, runs,
                   rv, arg, ret,
                   pricingConfig>>

----------------------------------------------------------------------------
(* The server after construction: scheduler, service and trip table *)

NoArg == [ fn |-> "none" ]
\* threw: the call ended in an exception instead of a value
NoRet == [ done |-> FALSE, threw |-> FALSE, value |-> 0 ]

Init ==
    /\ isRunning = FALSE
    /\ intervalId = NoTimer
    /\ timers = {}
    /\ pendingInitial = {}
    /\ started = 0
    /\ runs = [ s \in Slots |-> FreeRun ]
    /\ store = [ t \in Trips |->
                   [ price |-> InitPrice(t), originalPrice |-> NoPrice,
                     bookings |-> 0 ] ]
    /\ rv = IdleRevert
    /\ log = NoEvent("init", "none")
    /\ arg = NoArg
    /\ ret = NoRet
    /\ pricingConfig = PricingConfig

\* The scheduler and its batches, while no booking is made and no price is
\* reverted.
Next ==
    \/ Start
    \/ Stop
    \/ \E k \in 1 .. MaxStarts : IntervalTick(k)
    \/ \E k \in 1 .. MaxStarts : InitialRun(k)
    \/ RunManualUpdate
    \/ \E s \in Slots, ok \in BOOLEAN : ListDone(s, ok)
    \/ \E s \in Slots, ok \in BOOLEAN : WriteDone(s, ok)

Spec == Init /\ [][Next]_vars

\* The service under manual triggers, with bookings and reverts, while the
\* scheduler's timers are not started.
NextService ==
    \/ RunManualUpdate
    \/ \E s \in Slots, ok \in BOOLEAN : ListDone(s, ok)
    \/ \E s \in Slots, ok \in BOOLEAN : WriteDone(s, ok)
    \/ \E t \in Trips \cup { MissingTrip } : RevertRead(t)
    \/ \E ok \in BOOLEAN : RevertWrite(ok)
    \/ \E t \in Trips : Book(t)

SpecService == Init /\ [][NextService]_vars

\* The service under manual triggers while an operator replaces the pricing
\* config.
NextConfig ==
    \/ RunManualUpdate
    \/ \E s \in Slots, ok \in BOOLEAN : ListDone(s, ok)
    \/ \E s \in Slots, ok \in BOOLEAN : WriteDone(s, ok)
    \/ \E c \in NewConfigs : UpdatePricingConfig(c)

SpecConfig == Init /\ [][NextConfig]_vars

----------------------------------------------------------------------------
(* Direct calls of DynamicPricing *)

\* bookings and seats of the trips priced
Occupancies ==
    { [ bookings |-> 5,  totalSeats |-> 50 ], [ bookings |-> 10, totalSeats |-> 50 ],
      [ bookings |-> 15, totalSeats |-> 50 ], [ bookings |-> 35, totalSeats |-> 50 ],
      [ bookings |-> 45, totalSeats |-> 50 ], [ bookings |-> 3,  totalSeats |-> 4 ],
      [ bookings |-> 0,  totalSeats |-> 0 ],  [ bookings |-> 1,  totalSeats |-> 0 ] }

PricedTrips ==
    { [ id |-> 1, status |-> "SCHEDULED",
        price |-> p, originalPrice |-> o, hoursUntilDeparture |-> h,
        departureHour |-> d, tripAge |-> a,
        bookings |-> occ.bookings, totalSeats |-> occ.totalSeats ] :
      p \in { 0, 1, 101, 1200 }, o \in { NoPrice, 7, 1000 },
      h \in { 2, 6, 48, 72 }, d \in { 6, 10, 11, 20, 21 }, a \in { 10, 24, 100 },
      occ \in Occupancies }

\* the partial configs passed: none, narrower bounds, bounds the wrong way
\* round, a deeper early bird discount
PassedConfigs ==
    { << >>,
      [ maxPriceIncrease |-> 22, maxPriceDecrease |-> 18 ],
      [ maxPriceIncrease |-> 14, maxPriceDecrease |-> 30 ],
      [ earlyBirdDiscount |-> 10, maxPriceDecrease |-> 10 ],
      [ peakHours |-> { [ start |-> 11, end |-> 11 ] },
        peakHourMultiplier |-> 24 ] }

\* the argument lists of shouldUpdatePrice: current price, new price and, when
\* passed, the threshold in percent
ComparedPrices == { 0, 50, 100, 101, 102, 103, 105, 200, 204 }
ThresholdCalls ==
    { <<c, n>> : c \in ComparedPrices, n \in ComparedPrices }
        \cup { <<c, n, t>> : c \in ComparedPrices, n \in ComparedPrices,
                             t \in { 0, 2, 3, 5 } }

InitCalls ==
    /\ isRunning = FALSE
    /\ intervalId = NoTimer
    /\ timers = {}
    /\ pendingInitial = {}
    /\ started = 0
    /\ runs = [ s \in Slots |-> FreeRun ]
    /\ store = [ t \in Trips |->
                   [ price |-> InitPrice(t), originalPrice |-> NoPrice,
                     bookings |-> 0 ] ]
    /\ rv = IdleRevert
    /\ log = NoEvent("init", "none")
    /\ arg \in [ fn : { "calculateDynamicPrice", "getPricingFactors" },
                 trip : PricedTrips, config : PassedConfigs ]
               \cup [ fn : { "shouldUpdatePrice" }, args : ThresholdCalls ]
    /\ ret = NoRet
    /\ pricingConfig = PricingConfig

\* calculateDynamicPrice has no throw statement and no call that throws for a
\* trip and a config of numbers: it returns a number for every input.
CallCalculateDynamicPrice ==
    /\ arg.fn = "calculateDynamicPrice"
    /\ ~ret.done
    /\ ret' = [ done |-> TRUE, threw |-> FALSE,
                value |-> calculateDynamicPrice(arg.trip, arg.config) ]
    /\ UNCHANGED <<isRunning, intervalId, timers, pendingInitial, started, runs,
                   store, rv, log, arg,
                   pricingConfig>>

CallGetPricingFactors ==
    /\ arg.fn = "getPricingFactors"
    /\ ~ret.done
    /\ ret' = [ done |-> TRUE, threw |-> FALSE,
                value |-> getPricingFactors(arg.trip, arg.config) ]
    /\ UNCHANGED <<isRunning, intervalId, timers, pendingInitial, started, runs,
                   store, rv, log, arg,
                   pricingConfig>>

\* a call with two arguments takes the default threshold
CallShouldUpdatePrice ==
    /\ arg.fn = "shouldUpdatePrice"
    /\ ~ret.done
    /\ ret' = [ done |-> TRUE, threw |-> FALSE,
                value |-> shouldUpdatePrice(arg.args[1], arg.args[2],
                              IF Len(arg.args) >= 3 THEN arg.args[3]
                                                    ELSE DefaultThreshold) ]
    /\ UNCHANGED <<isRunning, intervalId, timers, pendingInitial, started, runs,
                   store, rv, log, arg,
                   pricingConfig>>

NextPrice ==
    \/ CallCalculateDynamicPrice
    \/ CallGetPricingFactors
    \/ CallShouldUpdatePrice

SpecPrice == InitCalls /\ [][NextPrice]_vars

----------------------------------------------------------------------------
(* Properties of calculateDynamicPrice, under SpecPrice *)

Priced == arg.fn = "calculateDynamicPrice" /\ ret.done

\* the bounds of the call, and the returned price, in units of 1/160000
LowerBound == MinPrice(arg.trip, MergeConfig(arg.config))
UpperBound == MaxPrice(arg.trip, MergeConfig(arg.config))
Returned   == ret.value * 160000

EarlyBirdExample ==
    /\ arg.fn = "calculateDynamicPrice"
    /\ arg.config = << >>
    /\ arg.trip.price = 1200
    /\ arg.trip.originalPrice = NoPrice
    /\ arg.trip.hoursUntilDeparture = 72
    /\ arg.trip.departureHour \notin (7 .. 10) \cup (17 .. 20)
    /\ arg.trip.bookings = 5
    /\ arg.trip.totalSeats = 50
    /\ arg.trip.tripAge < 24

OutsideContract ==
    \/ MergeConfig(arg.config).maxPriceDecrease
           > MergeConfig(arg.config).maxPriceIncrease
    \/ arg.trip.totalSeats = 0

\* C14: a call of calculateDynamicPrice with maxPriceDecrease greater than
\* maxPriceIncrease, or with a trip whose totalSeats is zero, ends in an error
\* and returns no price.
C14_FailsFast == (Priced /\ OutsideContract) => ret.threw

----------------------------------------------------------------------------
(* Properties of shouldUpdatePrice, under SpecPrice *)

Compared == arg.fn = "shouldUpdatePrice" /\ ret.done

OldPrice  == arg.args[1]
NewPrice  == arg.args[2]
Threshold == IF Len(arg.args) >= 3 THEN arg.args[3] ELSE 2

\* C15: shouldUpdatePrice(old, new, threshold) is true exactly when
\* abs((new - old) / old) * 100 >= threshold, the threshold being 2 when none
\* is passed: a change of exactly the threshold (100 to 102 at 2%) gives true,
\* every smaller change false.
C15_TrueFromThresholdUp ==
    (Compared /\ OldPrice # 0) =>
        /\ 100 * Abs(NewPrice - OldPrice) >= Threshold * Abs(OldPrice)
              => ret.value = TRUE
        /\ 100 * Abs(NewPrice - OldPrice) < Threshold * Abs(OldPrice)
              => ret.value = FALSE
        /\ (OldPrice = 100 /\ NewPrice = 102 /\ Threshold = 2)
              => ret.value = TRUE
        /\ (OldPrice = 100 /\ NewPrice = 101 /\ Threshold = 2)
              => ret.value = FALSE

\* 100 to 102 with no threshold passed: a change of exactly the default 2%
C15_Witness ==
    /\ Compared
    /\ arg.args = <<100, 102>>
    /\ ret.value = TRUE

----------------------------------------------------------------------------
(* Properties of getPricingFactors, under SpecPrice *)

Factored == arg.fn = "getPricingFactors" /\ ret.done

\* the base price times the four factors reported, in units of 1/160000
ReportedRawPrice ==
    BasePrice(arg.trip) * ret.value.timeFactor * ret.value.occupancyFactor
                        * ret.value.peakHourFactor * ret.value.velocityFactor

\* C16: the finalPrice reported by getPricingFactors is the value
\* calculateDynamicPrice returns for the same trip and config, and is the base
\* price times the four reported factors, clamped to the bounds and rounded
\* to a multiple of 5.
C16_FinalPriceFromFactors ==
    Factored =>
        /\ ret.value.finalPrice = calculateDynamicPrice(arg.trip, arg.config)
        /\ ret.value.finalPrice =
              RoundTo5(Max2(LowerBound, Min2(UpperBound, ReportedRawPrice)))

\* factors reported under a passed config that changes the price
C16_Witness ==
    /\ Factored
    /\ arg.config # << >>
    /\ ret.value.timeFactor # 20
    /\ ret.value.occupancyFactor # 20
    /\ ret.value.finalPrice # calculateDynamicPrice(arg.trip, << >>)
    /\ ret.value.finalPrice # arg.trip.price

\* the occupancy example: 35 of 50 seats booked, default config
SeventyPercentExample ==
    /\ arg.fn = "getPricingFactors"
    /\ arg.config = << >>
    /\ arg.trip.bookings = 35
    /\ arg.trip.totalSeats = 50

----------------------------------------------------------------------------
(* The reference price, under SpecPrice *)

\* an option of the config passed, or its documented default
Option(name, default) ==
    IF name \in DOMAIN arg.config THEN arg.config[name] ELSE default

\* the factors of the reference, in twentieths
RefTimeFactor ==
    CASE arg.trip.hoursUntilDeparture > Option("earlyBirdThreshold", 48)
           -> Option("earlyBirdDiscount", 17)
      [] /\ arg.trip.hoursUntilDeparture <= Option("earlyBirdThreshold", 48)
         /\ arg.trip.hoursUntilDeparture < Option("lastMinuteThreshold", 6)
           -> Option("lastMinuteMultiplier", 25)
      [] OTHER -> 20

RefOccupancyFactor ==
    CASE 10 * arg.trip.bookings > 7 * arg.trip.totalSeats
           -> Option("highDemandMultiplier", 26)
      [] 10 * arg.trip.bookings < 3 * arg.trip.totalSeats
           -> Option("lowDemandDiscount", 16)
      [] OTHER -> 20

RefPeakHourFactor ==
    IF \E peak \in Option("peakHours", { [ start |-> 7, end |-> 10 ],
                                         [ start |-> 17, end |-> 20 ] }) :
           arg.trip.departureHour \in peak.start .. peak.end
    THEN Option("peakHourMultiplier", 23)
    ELSE 20

RefVelocityFactor ==
    CASE arg.trip.tripAge < 24 /\ 5 * arg.trip.bookings > arg.trip.totalSeats
           -> 22
      [] arg.trip.tripAge > 72 /\ 5 * arg.trip.bookings < arg.trip.totalSeats
           -> 19
      [] OTHER -> 20

RefBase ==
    IF arg.trip.originalPrice # 0 THEN arg.trip.originalPrice ELSE arg.trip.price

\* the reference before rounding, in units of 1/160000: the raw price moved
\* up to the lower bound, or else down to the upper bound
RefClamped ==
    LET raw == RefBase * RefTimeFactor * RefOccupancyFactor
                       * RefPeakHourFactor * RefVelocityFactor
        low  == RefBase * Option("maxPriceDecrease", 14) * 8000
        high == RefBase * Option("maxPriceIncrease", 30) * 8000
    IN  IF raw < low \/ high < low THEN low
        ELSE IF raw > high THEN high ELSE raw

C26_PeakHoursInclusive ==
    Factored =>
        LET h      == arg.trip.departureHour
            config == MergeConfig(arg.config)
        IN  /\ (\E peak \in config.peakHours : peak.start <= h /\ h <= peak.end)
                  => ret.value.peakHourFactor = config.peakHourMultiplier
            /\ (\A peak \in config.peakHours : h < peak.start \/ peak.end < h)
                  => ret.value.peakHourFactor = 20
            /\ (arg.config = << >> /\ h \in { 10, 20 })
                  => ret.value.peakHourFactor = 23
            /\ (arg.config = << >> /\ h \in { 11, 21 })
                  => ret.value.peakHourFactor = 20

\* a departure at hour 20 under the default config
C26_Witness ==
    /\ Factored
    /\ arg.config = << >>
    /\ arg.trip.departureHour = 20
    /\ ret.value.peakHourFactor = 23

----------------------------------------------------------------------------
(* Properties of the scheduler, under Spec *)

\* the executions of updateTripPrices in flight
InFlightSlots == { s \in Slots : InFlight(s) }

\* the step is a call of runManualUpdate / a firing of the interval callback
ManualCalled == log'.op = "manual" /\ log'.outcome \in { "called", "rejected" }
TickFired    == log'.op = "tick" /\ log'.outcome \in { "called", "skipped" }

\* the step begins a run on behalf of one of the scheduler's timers
TimerRunBegins == log'.op \in { "tick", "initial" } /\ log'.outcome = "called"

\* C1: at most one execution of updateTripPrices is in flight at any moment.
C1_AtMostOneBatch == Cardinality(InFlightSlots) <= 1

\* C2: runManualUpdate() called while a batch is in flight is rejected, starts
\* no second batch and leaves the guard set.
C2_ManualRejectedWhileInFlight ==
    [][ (ManualCalled /\ InFlightSlots # {}) =>
            /\ log'.outcome = "rejected"
            /\ runs' = runs
            /\ isRunning /\ isRunning' ]_vars

\* C4: once stop() has been called after start() no run begins on behalf of
\* the interval or of the initial timeout; stop() with no timer set changes
\* nothing; stop() never touches a batch in flight.
C4_NoRunAfterStop ==
    [][ /\ (started > 0 /\ intervalId = NoTimer /\ intervalId' = NoTimer)
            => ~TimerRunBegins
        /\ (log'.op = "stop" /\ intervalId = NoTimer)
            => UNCHANGED <<isRunning, intervalId, timers, pendingInitial,
                           started, runs, store, rv>>
        /\ log'.op = "stop" => runs' = runs ]_vars

\* C7: the guard is set exactly while a run that set it is in flight, so it is
\* cleared when that run returns or throws; a failing listing writes no trip,
\* is rethrown to the caller of runManualUpdate and only logged by the interval
\* callback, and leaves the guard clear for the next tick or manual trigger.
C7_GuardClearedOnEveryExit ==
    /\ [](isRunning <=> \E s \in Slots : InFlight(s) /\ Guarded(runs[s].kind))
    /\ [][ \A s \in Slots :
             (InFlight(s) /\ Guarded(runs[s].kind) /\ runs'[s].pc = "free") =>
                 /\ ~isRunning'
                 /\ (runs[s].pc = "list" /\ log'.outcome # "returned") =>
                        /\ store' = store
                        /\ log'.op = runs[s].kind
                        /\ log'.outcome =
                             IF runs[s].kind = "manual" THEN "thrown" ELSE "logged"
         ]_vars

\* a manual update whose listing failed: the error reached the caller and the
\* guard is clear
C7_Witness ==
    /\ log.op = "manual" /\ log.outcome = "thrown"
    /\ ~isRunning
    /\ \A t \in Trips : store[t].originalPrice = NoPrice

\* C8: an interval tick that finds the guard set starts no batch, raises no
\* error, leaves the guard set and schedules nothing in its place.
C8_TickSkippedWhileRunning ==
    [][ (TickFired /\ isRunning) =>
            /\ log'.outcome = "skipped"
            /\ UNCHANGED <<isRunning, intervalId, timers, pendingInitial,
                           started, runs, store, rv>> ]_vars

\* a tick was skipped while a guarded batch is in flight
C8_Witness ==
    /\ log.op = "tick" /\ log.outcome = "skipped"
    /\ isRunning
    /\ InFlightSlots # {}

----------------------------------------------------------------------------
(* Properties of the batch and of the revert, under SpecService *)

\* the last step ended an execution of updateTripPrices
BatchEnded ==
    /\ log.op \in { "tick", "initial", "manual" }
    /\ log.outcome \in { "returned", "thrown", "logged" }

\* the ids of the trips for which the batch returned a PricingUpdate
UpdatedIds(result) ==
    { result.updates[n].tripId : n \in 1 .. Len(result.updates) }

\* C3: a batch in which a write failed still returns; totalTripsProcessed is
\* the number of eligible trips; a PricingUpdate is returned for exactly the
\* listed trips that qualify and whose write did not fail, each once and with
\* the computed price; pricesUpdated counts them.
C3_FailureDoesNotAbort ==
    /\ (BatchEnded /\ log.run.failed # {}) => log.outcome = "returned"
    /\ (BatchEnded /\ log.outcome = "returned") =>
         LET run    == log.run
             result == log.result
             listed == { n \in 1 .. Len(run.trips) : TRUE }
         IN /\ result.totalTripsProcessed = Cardinality({ t \in Trips : Eligible(t) })
            /\ \A n \in listed :
                 (run.trips[n].id \in UpdatedIds(result))
                    <=> (Qualifies(run.trips[n]) /\ run.trips[n].id \notin run.failed)
            /\ \A n \in 1 .. Len(result.updates) :
                 \E m \in listed :
                    /\ run.trips[m].id = result.updates[n].tripId
                    /\ result.updates[n].newPrice =
                         calculateDynamicPrice(run.trips[m], PricingConfig)
            /\ result.pricesUpdated = Cardinality(UpdatedIds(result))
            /\ result.pricesUpdated = Len(result.updates)

\* a batch over two trips returned with one write failed and the other trip
\* updated
C3_Witness ==
    /\ BatchEnded /\ log.outcome = "returned"
    /\ Cardinality(log.run.failed) = 1
    /\ log.result.totalTripsProcessed = 2
    /\ log.result.pricesUpdated >= 1

\* C6: an unset originalPrice is set only by a batch write and to the price
\* the row had just before; once set it changes only by being cleared, and
\* only a revert clears it; so it is always the price the trip was created
\* with and never a computed one.
C6_OriginalPriceIsBaseline ==
    /\ [](\A t \in Trips : store[t].originalPrice \in { NoPrice, InitPrice(t) })
    /\ [][ \A t \in Trips :
             /\ (store[t].originalPrice = NoPrice
                    /\ store'[t].originalPrice # NoPrice) =>
                  /\ store'[t].originalPrice = store[t].price
                  /\ log'.op \in { "batch", "tick", "initial", "manual" }
             /\ (store[t].originalPrice # NoPrice
                    /\ store'[t].originalPrice # store[t].originalPrice) =>
                  /\ store'[t].originalPrice = NoPrice
                  /\ log'.op = "revert" /\ log'.outcome = "returned"
         ]_vars

\* a batch updated a trip whose price had been adjusted before, and the
\* original price is still the creation price
C6_Witness ==
    /\ BatchEnded /\ log.outcome = "returned"
    /\ \E n \in 1 .. Len(log.result.updates) :
         LET u == log.result.updates[n] IN
         /\ u.oldPrice # InitPrice(u.tripId)
         /\ u.newPrice # u.oldPrice
         /\ store[u.tripId].price = u.newPrice
         /\ store[u.tripId].originalPrice = InitPrice(u.tripId)

\* the step is a call of revertTripPrice(t) up to its read of the row
RevertCalled(t) ==
    log'.op = "revert" /\ log'.trip = t /\ log'.outcome \in { "thrown", "awaiting" }

\* C9: revertTripPrice on a trip with a stored originalPrice goes on to write
\* price = originalPrice and originalPrice = none, leaving the other rows
\* alone; on a trip without one, or on a missing trip, it throws and changes
\* nothing; a row just reverted has no originalPrice, so the next revert throws.
C9_RevertRestoresOrFails ==
    [][ /\ \A t \in Trips \cup { MissingTrip } :
             RevertCalled(t) =>
                /\ store' = store
                /\ log'.outcome =
                     IF t \in Trips /\ store[t].originalPrice # NoPrice
                     THEN "awaiting" ELSE "thrown"
        /\ (log'.op = "revert" /\ log'.outcome = "returned") =>
             LET t == log'.trip IN
             /\ store[t].originalPrice # NoPrice
             /\ store'[t].price = store[t].originalPrice
             /\ store'[t].originalPrice = NoPrice
             /\ store'[t].bookings = store[t].bookings
             /\ \A u \in Trips \ { t } : store'[u] = store[u]
      ]_vars

\* a trip whose price had been adjusted is back at its original price with no
\* original price stored
C9_Witness ==
    /\ log.op = "revert" /\ log.outcome = "returned"
    /\ store[log.trip].price = InitPrice(log.trip)
    /\ store[log.trip].originalPrice = NoPrice

----------------------------------------------------------------------------
(* ContentBasedRecommendation, src/src/algorithms/contentBased.ts *)

\* A string is the sequence of its characters.
ToLower(c) ==
    CASE c = "A" -> "a" [] c = "C" -> "c" [] c = "K" -> "k" [] c = "M" -> "m"
      [] c = "N" -> "n" [] c = "P" -> "p" [] c = "R" -> "r" [] c = "T" -> "t"
      [] c = "W" -> "w" [] OTHER -> c

\* String.prototype.toLowerCase
toLowerCase(str) == [ i \in 1 .. Len(str) |-> ToLower(str[i]) ]

\* String.prototype.includes: sub occurs in str at some position
includes(str, sub) ==
    \E i \in 0 .. (Len(str) - Len(sub)) : SubSeq(str, i + 1, i + Len(sub)) = sub

\* a.toLowerCase().includes(b.toLowerCase())
Contains(a, b) == includes(toLowerCase(a), toLowerCase(b))

\* an argument that was not passed
Undefined == [ undefined |-> TRUE ]

\* Numbers that are not integers are fractions <<numerator, denominator>> in
\* lowest terms with a positive denominator.
RECURSIVE GCD(_, _)
GCD(a, b) == IF b = 0 THEN a ELSE GCD(b, a % b)

Frac(n, d) ==
    LET g == GCD(Abs(n), Abs(d))
        sgn == IF d < 0 THEN -1 ELSE 1
    IN  << (sgn * n) \div g, (sgn * d) \div g >>

Zero == << 0, 1 >>
One  == << 1, 1 >>

Plus(x, y)  == Frac(x[1] * y[2] + y[1] * x[2], x[2] * y[2])
Times(x, y) == Frac(x[1] * y[1], x[2] * y[2])
Less(x, y)  == x[1] * y[2] < y[1] * x[2]

\* the sign of a - b
Sign(a, b) == IF Less(a, b) THEN -1 ELSE IF Less(b, a) THEN 1 ELSE 0

\* a signal that is not active adds nothing to score and totalWeight; weights
\* are counted in halves (facilities weigh 1.5)
Inactive == [ weight |-> 0, score |-> Zero ]

Signal(weight, matchValue) ==
    [ weight |-> weight, score |-> Times(<< weight, 1 >>, matchValue) ]

\* preferences.<list>?.length and list.some(x => text.toLowerCase().includes(
\* x.toLowerCase()))
ListSignal(preferences, field, text, weight) ==
    IF field \in DOMAIN preferences /\ Len(preferences[field]) > 0
    THEN Signal(weight,
                IF \E k \in 1 .. Len(preferences[field]) :
                       Contains(text, preferences[field][k])
                THEN One ELSE Zero)
    ELSE Inactive

\* price range (weight 2): full credit inside the range, otherwise
\* Math.max(0, 1 - distanceFromRange / maxDistance).  With maxDistance = 0 the
\* quotient is Infinity (the distance is positive outside the range) and the
\* credit 0; with maxDistance < 0 the quotient is negative or -0 and the credit
\* 1 or more.
PriceRangeSignal(trip, preferences) ==
    IF "priceRange" \in DOMAIN preferences
    THEN LET min == preferences.priceRange.min
             max == preferences.priceRange.max
             distanceFromRange == Min2(Abs(trip.price - min), Abs(trip.price - max))
             maxDistance == max - min
         IN  Signal(4,
                 IF trip.price >= min /\ trip.price <= max
                 THEN One
                 ELSE IF maxDistance = 0
                      THEN Zero
                      ELSE IF Less(One, Frac(distanceFromRange, maxDistance))
                           THEN Zero
                           ELSE Frac(maxDistance - distanceFromRange, maxDistance))
    ELSE Inactive

\* the switch over preferredTimeOfDay
MatchesTimePreference(timeOfDay, departureHour) ==
    CASE timeOfDay = "morning"   -> departureHour >= 6 /\ departureHour < 12
      [] timeOfDay = "afternoon" -> departureHour >= 12 /\ departureHour < 18
      [] timeOfDay = "evening"   -> departureHour >= 18 /\ departureHour < 22
      [] timeOfDay = "night"     -> departureHour >= 22 \/ departureHour < 6
      [] OTHER                   -> FALSE

TimeOfDaySignal(trip, preferences) ==
    IF "preferredTimeOfDay" \in DOMAIN preferences
    THEN Signal(2, IF MatchesTimePreference(preferences.preferredTimeOfDay,
                                            trip.departureHour)
                   THEN One ELSE Zero)
    ELSE Inactive

\* facilities (weight 1.5): the fraction of the preferred facilities some
\* facility of the trip contains
FacilitiesSignal(trip, preferences) ==
    IF "preferredFacilities" \in DOMAIN preferences
       /\ Len(preferences.preferredFacilities) > 0
    THEN LET wanted == preferences.preferredFacilities
             matchingFacilities ==
                 { k \in 1 .. Len(wanted) :
                     \E f \in 1 .. Len(trip.facilities) :
                         Contains(trip.facilities[f], wanted[k]) }
         IN  Signal(3, Frac(Cardinality(matchingFacilities), Len(wanted)))
    ELSE Inactive

\* a filter that is set and matched adds filterWeight 2 to score and
\* totalWeight, any other filter nothing
Boost(matched) == IF matched THEN Signal(4, One) ELSE Inactive

TextFilterBoost(filters, field, text) ==
    Boost(/\ filters # Undefined
          /\ field \in DOMAIN filters
          /\ Len(filters[field]) > 0
          /\ Contains(text, filters[field]))

\* (filters.minPrice && trip.price >= filters.minPrice) ||
\* (filters.maxPrice && trip.price <= filters.maxPrice)
PriceFilterBoost(filters, trip) ==
    Boost(/\ filters # Undefined
          /\ \/ /\ "minPrice" \in DOMAIN filters
                /\ filters.minPrice # 0
                /\ trip.price >= filters.minPrice
             \/ /\ "maxPrice" \in DOMAIN filters
                /\ filters.maxPrice # 0
                /\ trip.price <= filters.maxPrice)

\* the operator rating, in tenths; an absent rating and the rating 0 are both
\* falsy
NoRating == 0

\* operator rating (weight 1): operatorRating / 5, whatever the preferences
\* and filters are
OperatorRatingSignal(trip) ==
    IF trip.operatorRating # NoRating
    THEN Signal(2, Frac(trip.operatorRating, 50))
    ELSE Inactive

\* the signals in the order of the source
Signals(trip, preferences, filters) ==
    << ListSignal(preferences, "preferredOrigins", trip.origin, 6),
       ListSignal(preferences, "preferredDestinations", trip.destination, 6),
       ListSignal(preferences, "preferredBusTypes", trip.busType, 4),
       PriceRangeSignal(trip, preferences),
       TimeOfDaySignal(trip, preferences),
       FacilitiesSignal(trip, preferences),
       TextFilterBoost(filters, "origin", trip.origin),
       TextFilterBoost(filters, "destination", trip.destination),
       TextFilterBoost(filters, "busType", trip.busType),
       PriceFilterBoost(filters, trip),
       OperatorRatingSignal(trip) >>

RECURSIVE SumWeights(_, _)
SumWeights(signals, k) ==
    IF k = 0 THEN 0 ELSE SumWeights(signals, k - 1) + signals[k].weight

RECURSIVE SumScores(_, _)
SumScores(signals, k) ==
    IF k = 0 THEN Zero ELSE Plus(SumScores(signals, k - 1), signals[k].score)

\* totalWeight > 0 ? score / totalWeight : 0
calculateSimilarityScore(trip, preferences, filters) ==
    LET signals     == Signals(trip, preferences, filters)
        score       == SumScores(signals, Len(signals))
        totalWeight == SumWeights(signals, Len(signals))
    IN  IF totalWeight > 0
        THEN Frac(score[1], score[2] * totalWeight)
        ELSE Zero

\* Array.prototype.sort, cmp[i][j] being the value of the comparator for
\* array[i] and array[j]: the sort is stable, so an element comes after those
\* the comparator orders before it and after its equals that precede it in
\* the array.
StableSort(array, cmp) ==
    LET n == Len(array)
        Rank(i) == Cardinality({ j \in 1 .. n :
                        \/ cmp[j][i] < 0
                        \/ cmp[j][i] = 0 /\ j < i })
    IN  [ r \in 1 .. n |-> array[CHOOSE i \in 1 .. n : Rank(i) = r - 1] ]

\* Array.prototype.slice(0, end)
SliceFromStart(array, end) ==
    SubSeq(array, 1, IF end < 0 THEN Max2(Len(array) + end, 0)
                                ELSE Min2(end, Len(array)))

\* { ...object, [field]: value }
With(object, field, value) ==
    [ f \in DOMAIN object \cup { field } |->
        IF f = field THEN value ELSE object[f] ]

\* the TripFeatures getRecommendedTrips builds from a trip: the operator
\* rating is 4.5 for a verified operator and 3.5 otherwise
FeaturesOf(trip) ==
    [ id             |-> trip.id,
      origin         |-> trip.route.origin,
      destination    |-> trip.route.destination,
      busType        |-> trip.bus.busType,
      price          |-> trip.price,
      departureHour  |-> trip.departureHour,
      operatorRating |-> IF trip.operator.isVerified THEN 45 ELSE 35,
      facilities     |-> trip.bus.facilities ]

\* the comparator taken the wrong way round
ByContentScore_Ascending(a, b) == Sign(a.contentScore, b.contentScore)

\* (a, b) => b.contentScore - a.contentScore
ByContentScore(a, b) == Sign(b.contentScore, a.contentScore)

\* limit: number = 10
DefaultLimit == 10

getRecommendedTrips(trips, userPreferences, filters, limit) ==
    LET scoredTrips ==
            [ i \in 1 .. Len(trips) |->
                With(trips[i], "contentScore",
                     calculateSimilarityScore(FeaturesOf(trips[i]),
                                              userPreferences, filters)) ]
        cmp ==
            [ i \in 1 .. Len(trips) |-> [ j \in 1 .. Len(trips) |->
                ByContentScore(scoredTrips[i], scoredTrips[j]) ] ]
    IN  SliceFromStart(StableSort(scoredTrips, cmp), limit)

\* routeSimilarity && busTypeSimilarity && priceSimilarity, the last one
\* Math.abs(candidate.price - selected.price) < selected.price * 0.1
Similar(candidate, selected) ==
    /\ candidate.route.origin = selected.route.origin
    /\ candidate.route.destination = selected.route.destination
    /\ candidate.bus.busType = selected.bus.busType
    /\ 10 * Abs(candidate.price - selected.price) < selected.price

\* the quota rounded down
DiversityQuota_Floor(n) == (4 * n) \div 5

\* Math.ceil(recommendations.length * 0.8)
DiversityQuota(n) == (4 * n + 4) \div 5

\* the loop of applyDiversity from candidate i on; lucky[i] is the outcome of
\* Math.random() < diversityFactor for candidate i
RECURSIVE DiversifyFrom(_, _, _, _)
DiversifyFrom(recommendations, i, diversified, lucky) ==
    IF i > Len(recommendations)
    THEN diversified
    ELSE LET candidate == recommendations[i]
             isDiverse == \A k \in 1 .. Len(diversified) :
                              ~Similar(candidate, diversified[k])
             kept      == IF isDiverse \/ lucky[i]
                          THEN Append(diversified, candidate)
                          ELSE diversified
         IN  IF Len(kept) >= DiversityQuota(Len(recommendations))
             THEN kept
             ELSE DiversifyFrom(recommendations, i + 1, kept, lucky)

applyDiversity(recommendations, lucky) ==
    IF Len(recommendations) <= 1
    THEN recommendations
    ELSE DiversifyFrom(recommendations, 2, << recommendations[1] >>, lucky)

\* diversityFactor: number = 0.3, in tenths
DefaultDiversityFactor == 3

\* the outcomes Math.random() < diversityFactor can have for n candidates:
\* Math.random() lies in [0, 1)
Draws(n, diversityFactor) ==
    { lucky \in [ 1 .. n -> BOOLEAN ] :
        /\ diversityFactor <= 0 => \A i \in 1 .. n : ~lucky[i]
        /\ diversityFactor >= 10 => \A i \in 1 .. n : lucky[i] }

----------------------------------------------------------------------------
(* Direct calls of ContentBasedRecommendation *)

MaxTrips == 3      \* trips passed to getRecommendedTrips
MaxRecs  == 5      \* recommendations passed to applyDiversity

Ktm   == << "K", "t", "m" >>
Pkr   == << "P", "k", "r" >>
AC    == << "A", "C" >>
NonAC == << "N", "A", "C" >>
Wifi  == << "W", "i" >>

\* the trips scored
ScoredTrips ==
    { [ id |-> 1, origin |-> r[1], destination |-> r[2], busType |-> b,
        price |-> p, departureHour |-> h, operatorRating |-> o,
        facilities |-> f ] :
      r \in { << Ktm, Pkr >>, << Pkr, Ktm >> }, b \in { AC, NonAC },
      p \in { 50, 100, 200 }, h \in { 8, 23 }, o \in { NoRating, 35, 50 },
      f \in { << >>, << Wifi >> } }

\* the preference profiles: none, empty lists, places, price ranges (a wide
\* one, one of width zero, one the wrong way round), every preference, a time
\* of day with a bus type
Profiles ==
    { << >>,
      [ preferredOrigins |-> << >>, preferredFacilities |-> << >> ],
      [ preferredOrigins |-> << << "k", "t" >> >>,
        preferredDestinations |-> << << "P", "K", "R" >> >> ],
      [ priceRange |-> [ min |-> 120, max |-> 220 ] ],
      [ priceRange |-> [ min |-> 100, max |-> 100 ] ],
      [ priceRange |-> [ min |-> 150, max |-> 100 ] ],
      [ preferredOrigins |-> << << "k", "t" >>, << "x" >> >>,
        preferredDestinations |-> << << "k", "t" >> >>,
        preferredBusTypes |-> << << "a", "c" >> >>,
        priceRange |-> [ min |-> 120, max |-> 220 ],
        preferredTimeOfDay |-> "morning",
        preferredFacilities |-> << << "w", "i" >>, << "t", "v" >> >> ],
      [ preferredTimeOfDay |-> "night",
        preferredBusTypes |-> << << "n", "a", "c" >> >> ] }

\* the filters: not passed, none set, one set, a price range, several set
FilterSets ==
    { Undefined,
      << >>,
      [ origin |-> << "k", "t", "m" >> ],
      [ minPrice |-> 100 ],
      [ minPrice |-> 100, maxPrice |-> 150 ],
      [ destination |-> << >>, busType |-> AC, minPrice |-> 0,
        maxPrice |-> 100 ] }

\* the trips recommended, without their ids
Candidates ==
    { [ route |-> [ origin |-> r[1], destination |-> r[2] ],
        bus |-> [ busType |-> AC, facilities |-> << >> ],
        operator |-> [ isVerified |-> v ],
        price |-> p, departureHour |-> 8 ] :
      r \in { << Ktm, Pkr >>, << Pkr, Ktm >> }, v \in BOOLEAN,
      p \in { 100, 200 } }

\* the recommendations diversified, without their ids
Recommended ==
    { [ route |-> [ origin |-> Ktm, destination |-> Pkr ],
        bus |-> [ busType |-> AC ], price |-> 100 ],
      [ route |-> [ origin |-> Ktm, destination |-> Pkr ],
        bus |-> [ busType |-> AC ], price |-> 105 ],
      [ route |-> [ origin |-> Ktm, destination |-> Pkr ],
        bus |-> [ busType |-> AC ], price |-> 110 ],
      [ route |-> [ origin |-> Ktm, destination |-> Pkr ],
        bus |-> [ busType |-> NonAC ], price |-> 100 ],
      [ route |-> [ origin |-> Ktm, destination |-> Pkr ],
        bus |-> [ busType |-> NonAC ], price |-> 110 ],
      [ route |-> [ origin |-> Pkr, destination |-> Ktm ],
        bus |-> [ busType |-> AC ], price |-> 100 ] }

\* the recommendations that differ in nothing but the price
Alike == { r \in Recommended : r.route.origin = Ktm /\ r.bus.busType = AC }

\* the lists of at most max members of a set, each member with its position
\* as id
ListsOf(set, max) ==
    { [ i \in 1 .. n |-> With(list[i], "id", i) ] :
        n \in 0 .. max, list \in [ 1 .. max -> set ] }

RelevanceCalls ==
    [ fn : { "calculateSimilarityScore" },
      args : { << t, p, f >> : t \in ScoredTrips, p \in Profiles,
                               f \in FilterSets } ]
    \cup
    [ fn : { "getRecommendedTrips" },
      args : { << t, p >> : t \in ListsOf(Candidates, MaxTrips),
                            p \in { << >>, [ priceRange |->
                                             [ min |-> 120, max |-> 220 ] ] } }
             \cup
             { << t, p, f, l >> :
                 t \in ListsOf(Candidates, MaxTrips),
                 p \in { << >>, [ preferredOrigins |-> << << "k" >> >> ] },
                 f \in { Undefined, [ origin |-> << "p", "k" >> ] },
                 l \in 0 .. 2 } ]
    \cup
    [ fn : { "applyDiversity" },
      args : { << r >> : r \in ListsOf(Alike, MaxRecs) }
             \cup { << r, d >> : r \in ListsOf(Recommended, MaxRecs),
                                 d \in { 0, 10 } } ]

InitRelevance ==
    /\ isRunning = FALSE
    /\ intervalId = NoTimer
    /\ timers = {}
    /\ pendingInitial = {}
    /\ started = 0
    /\ runs = [ s \in Slots |-> FreeRun ]
    /\ store = [ t \in Trips |->
                   [ price |-> InitPrice(t), originalPrice |-> NoPrice,
                     bookings |-> 0 ] ]
    /\ rv = IdleRevert
    /\ log = NoEvent("init", "none")
    /\ arg \in RelevanceCalls
    /\ ret = NoRet
    /\ pricingConfig = PricingConfig

Returns(value) ==
    /\ ~ret.done
    /\ ret' = [ done |-> TRUE, threw |-> FALSE, value |-> value ]
    /\ UNCHANGED <<isRunning, intervalId, timers, pendingInitial, started, runs,
                   store, rv, log, arg,
                   pricingConfig>>

CallCalculateSimilarityScore ==
    /\ arg.fn = "calculateSimilarityScore"
    /\ Returns(calculateSimilarityScore(arg.args[1], arg.args[2], arg.args[3]))

\* a call with two arguments passes no filters and takes the default limit
CallGetRecommendedTrips ==
    /\ arg.fn = "getRecommendedTrips"
    /\ Returns(getRecommendedTrips(arg.args[1], arg.args[2],
                   IF Len(arg.args) >= 3 THEN arg.args[3] ELSE Undefined,
                   IF Len(arg.args) >= 4 THEN arg.args[4] ELSE DefaultLimit))

\* a call with one argument takes the default diversityFactor
CallApplyDiversity ==
    /\ arg.fn = "applyDiversity"
    /\ \E lucky \in Draws(Len(arg.args[1]),
                          IF Len(arg.args) >= 2 THEN arg.args[2]
                                                ELSE DefaultDiversityFactor) :
           Returns(applyDiversity(arg.args[1], lucky))

NextRelevance ==
    \/ CallCalculateSimilarityScore
    \/ CallGetRecommendedTrips
    \/ CallApplyDiversity

SpecRelevance == InitRelevance /\ [][NextRelevance]_vars

----------------------------------------------------------------------------
(* Properties of calculateSimilarityScore, under SpecRelevance *)

Scored == arg.fn = "calculateSimilarityScore" /\ ret.done

Recommends == arg.fn = "getRecommendedTrips" /\ ret.done

\* the filters and the limit of a call of getRecommendedTrips
PassedFilters == IF Len(arg.args) >= 3 THEN arg.args[3] ELSE Undefined
PassedLimit   == IF Len(arg.args) >= 4 THEN arg.args[4] ELSE 10

\* C11: with empty preferences and no filters the relevance score is 0 for
\* every trip, whatever its content and its operator rating: the score
\* calculateSimilarityScore returns, and every contentScore getRecommendedTrips
\* attaches.
C11_EmptyPreferencesScoreZero ==
    /\ (Scored /\ arg.args[2] = << >> /\ arg.args[3] = Undefined)
          => ret.value = << 0, 1 >>
    /\ (Recommends /\ arg.args[2] = << >> /\ PassedFilters = Undefined)
          => \A k \in 1 .. Len(ret.value) :
                 ret.value[k].contentScore = << 0, 1 >>

\* C13: the relevance score of a trip with an operator rating in 0..5 lies in
\* [0, 1] for every preference profile, every price range included, and every
\* set of filters.
C13_ScoreWithinUnitInterval ==
    Scored => /\ 0 <= ret.value[1]
              /\ ret.value[1] <= ret.value[2]

\* the filters of the call without their price bounds
WithoutPriceBounds(filters) ==
    [ f \in DOMAIN filters \ { "minPrice", "maxPrice" } |-> filters[f] ]

\* the price of the trip breaks a price bound the filters give
OutsideFilteredRange ==
    /\ arg.args[3] # Undefined
    /\ \/ /\ "minPrice" \in DOMAIN arg.args[3]
          /\ arg.args[1].price < arg.args[3].minPrice
       \/ /\ "maxPrice" \in DOMAIN arg.args[3]
          /\ arg.args[1].price > arg.args[3].maxPrice

\* C25: the price range boost of the filters is applied only when the price of
\* the trip satisfies every price bound that is given: a trip priced outside
\* the filtered range scores what it scores without the price bounds.
C25_NoBoostOutsideFilteredRange ==
    (Scored /\ OutsideFilteredRange) =>
        ret.value = calculateSimilarityScore(arg.args[1], arg.args[2],
                                             WithoutPriceBounds(arg.args[3]))

----------------------------------------------------------------------------
(* Properties of getRecommendedTrips, under SpecRelevance *)

\* the score of a candidate of the call
ScoreOf(trip) ==
    calculateSimilarityScore(FeaturesOf(trip), arg.args[2], PassedFilters)

ReturnedIds == { ret.value[k].id : k \in 1 .. Len(ret.value) }

\* C19: getRecommendedTrips returns exactly min(limit, n) of its n candidates
\* (limit >= 0), each with its score attached as contentScore, in
\* non-increasing order of score, trips of equal score in their input order,
\* and no omitted candidate has a higher score than a returned one.
C19_TopByScoreStable ==
    Recommends =>
        LET trips == arg.args[1]
            n     == Len(trips)
            out   == ret.value
        IN  /\ Len(out) = IF PassedLimit <= n THEN PassedLimit ELSE n
            /\ \A k \in 1 .. Len(out) :
                   /\ out[k].id \in 1 .. n
                   /\ out[k].contentScore = ScoreOf(trips[out[k].id])
                   /\ \A f \in DOMAIN trips[out[k].id] :
                          out[k][f] = trips[out[k].id][f]
            /\ \A k, l \in 1 .. Len(out) :
                   k < l =>
                       /\ out[k].contentScore[1] * out[l].contentScore[2]
                            >= out[l].contentScore[1] * out[k].contentScore[2]
                       /\ out[k].contentScore = out[l].contentScore
                            => out[k].id < out[l].id
            /\ \A i \in 1 .. n, k \in 1 .. Len(out) :
                   i \notin ReturnedIds =>
                       ScoreOf(trips[i])[1] * out[k].contentScore[2]
                         <= out[k].contentScore[1] * ScoreOf(trips[i])[2]

\* three candidates and the limit 2: the first scores lowest and is left
\* out, the other two score the same and keep their order
C19_Witness ==
    /\ Recommends
    /\ Len(arg.args[1]) = 3
    /\ PassedLimit = 2
    /\ Len(ret.value) = 2
    /\ ret.value[1].id = 2
    /\ ret.value[2].id = 3
    /\ ret.value[1].contentScore = ret.value[2].contentScore
    /\ ScoreOf(arg.args[1][1]) # ret.value[1].contentScore

----------------------------------------------------------------------------
(* Properties of applyDiversity, under SpecRelevance *)

Diversified ==
    /\ arg.fn = "applyDiversity"
    /\ Len(arg.args) >= 2
    /\ arg.args[2] = 0
    /\ ret.done

KeptIds == { ret.value[k].id : k \in 1 .. Len(ret.value) }

\* the least whole number that is at least 0.8 * n
CeilOfFourFifths(n) == CHOOSE q \in 0 .. n : 5 * q >= 4 * n /\ 5 * (q - 1) < 4 * n

\* same origin and destination, same bus type, and a price that differs from
\* the kept item's by less than 10% of the kept item's price
NearDuplicate(candidate, kept) ==
    /\ candidate.route = kept.route
    /\ candidate.bus.busType = kept.bus.busType
    /\ 10 * Abs(candidate.price - kept.price) < kept.price

\* C18: with diversityFactor 0 applyDiversity returns a subsequence of its
\* input that starts with the top item; a later candidate is kept exactly
\* when it is reached before the kept count is ceil(0.8 * candidateCount) and
\* is no near-duplicate of an item kept before it; the length of the result
\* never exceeds ceil(0.8 * candidateCount).
C18_DiversityWithoutChance ==
    Diversified =>
        LET recs == arg.args[1]
            n    == Len(recs)
            out  == ret.value
            KeptBefore(i) == { k \in KeptIds : k < i }
        IN  /\ \A k \in 1 .. Len(out) :
                   out[k].id \in 1 .. n /\ out[k] = recs[out[k].id]
            /\ \A k, l \in 1 .. Len(out) : k < l => out[k].id < out[l].id
            /\ n >= 1 => Len(out) >= 1 /\ out[1].id = 1
            /\ Len(out) <= CeilOfFourFifths(n)
            /\ \A i \in 2 .. n :
                   i \in KeptIds <=>
                       /\ Cardinality(KeptBefore(i)) < CeilOfFourFifths(n)
                       /\ \A k \in KeptBefore(i) : ~NearDuplicate(recs[i], recs[k])

\* five candidates none of which is a near-duplicate of another: four are
\* kept and the fifth is never reached
C18_Witness ==
    /\ Diversified
    /\ Len(arg.args[1]) = 5
    /\ KeptIds = 1 .. 4
    /\ \A k \in 1 .. 4 : ~NearDuplicate(arg.args[1][5], arg.args[1][k])

----------------------------------------------------------------------------
(* OccupancySorting, src/src/algorithms/occupancy.ts *)

\* defaultConfig: the threshold in percent, the factors as fractions
DefaultOccupancyConfig ==
    [ minOccupancyThreshold   |-> 10,
      occupancyBoostFactor    |-> << 3, 2 >>,
      lowOccupancyPenalty     |-> << 1, 2 >>,
      balanceWithContentScore |-> TRUE ]

\* { ...this.defaultConfig, ...config }
MergeOccupancyConfig(config) ==
    [ f \in DOMAIN DefaultOccupancyConfig |->
        IF f \in DOMAIN config THEN config[f] ELSE DefaultOccupancyConfig[f] ]

\* (bookedSeats / totalSeats) * 100, for a bus with seats (the validators
\* admit no bus with fewer than 1)
getBusOccupancy(trip) == Frac(100 * trip.bookings, trip.bus.totalSeats)

\* occupancy / 100, boosted above 60%, penalised below 20%, at most 1
calculateOccupancyScore(occupancy, config) ==
    LET base  == Times(occupancy, << 1, 100 >>)
        score == IF Less(<< 60, 1 >>, occupancy)
                 THEN Times(base, config.occupancyBoostFactor)
                 ELSE IF Less(occupancy, << 20, 1 >>)
                      THEN Times(base, config.lowOccupancyPenalty)
                      ELSE base
    IN  IF Less(One, score) THEN One ELSE score

\* Array.prototype.filter: the members for which Keep holds, in their order
RECURSIVE Filter(_, _)
Filter(array, keep) ==
    IF array = << >>
    THEN << >>
    ELSE IF keep[1]
         THEN << Head(array) >> \o Filter(Tail(array), Tail(keep))
         ELSE Filter(Tail(array), Tail(keep))

\* trips.filter(trip => getBusOccupancy(trip) >= minOccupancyThreshold)
filterByMinOccupancy(trips, config) ==
    Filter(trips,
           [ i \in 1 .. Len(trips) |->
               ~Less(getBusOccupancy(trips[i]),
                     << config.minOccupancyThreshold, 1 >>) ])

\* a trip without contentScore
NoContentScore == << >>

\* a contentScore of 0 taken for a missing one
ScoredByOccupancy_ZeroNotCarried(trip, config) ==
    LET occupancy      == getBusOccupancy(trip)
        occupancyScore == calculateOccupancyScore(occupancy, config)
        finalScore ==
            IF config.balanceWithContentScore
               /\ trip.contentScore # NoContentScore
               /\ trip.contentScore # Zero
            THEN Plus(Times(trip.contentScore, << 3, 5 >>),
                      Times(occupancyScore, << 2, 5 >>))
            ELSE occupancyScore
    IN  With(With(With(trip, "occupancy", occupancy),
                  "occupancyScore", occupancyScore),
             "finalScore", finalScore)

\* the trip with occupancy, occupancyScore and finalScore added:
\* finalScore = contentScore * 0.6 + occupancyScore * 0.4 where the scores are
\* balanced and the trip has a contentScore, occupancyScore otherwise
ScoredByOccupancy(trip, config) ==
    LET occupancy      == getBusOccupancy(trip)
        occupancyScore == calculateOccupancyScore(occupancy, config)
        finalScore ==
            IF config.balanceWithContentScore
               /\ trip.contentScore # NoContentScore
            THEN Plus(Times(trip.contentScore, << 3, 5 >>),
                      Times(occupancyScore, << 2, 5 >>))
            ELSE occupancyScore
    IN  With(With(With(trip, "occupancy", occupancy),
                  "occupancyScore", occupancyScore),
             "finalScore", finalScore)

\* the occupancy compared the wrong way round
ByFinalScore_LowOccupancyFirst(a, b) ==
    IF b.finalScore # a.finalScore
    THEN Sign(b.finalScore, a.finalScore)
    ELSE IF b.occupancy # a.occupancy
         THEN Sign(a.occupancy, b.occupancy)
         ELSE IF a.departureTime < b.departureTime THEN -1
              ELSE IF a.departureTime > b.departureTime THEN 1 ELSE 0

\* the comparator of sortByOccupancy: finalScore descending, then occupancy
\* descending, then departureTime ascending
ByFinalScore(a, b) ==
    IF b.finalScore # a.finalScore
    THEN Sign(b.finalScore, a.finalScore)
    ELSE IF b.occupancy # a.occupancy
         THEN Sign(b.occupancy, a.occupancy)
         ELSE IF a.departureTime < b.departureTime THEN -1
              ELSE IF a.departureTime > b.departureTime THEN 1 ELSE 0

\* const x = ...: the value of a set of one, computed once and named
TheOnly(set) == CHOOSE x \in set : TRUE

\* the comparator applied to every two members of the array
Comparisons(scoredTrips) ==
    [ i \in 1 .. Len(scoredTrips) |-> [ j \in 1 .. Len(scoredTrips) |->
        ByFinalScore(scoredTrips[i], scoredTrips[j]) ] ]

sortByOccupancy(trips, config) ==
    LET finalConfig == MergeOccupancyConfig(config)
    IN  TheOnly({ TheOnly({ StableSort(scoredTrips, cmp) :
                              cmp \in { Comparisons(scoredTrips) } }) :
                  scoredTrips \in
                    { [ i \in 1 .. Len(processedTrips) |->
                          ScoredByOccupancy(processedTrips[i], finalConfig) ] :
                      processedTrips \in
                        { filterByMinOccupancy(trips, finalConfig) } } })

\* `${trip.route.origin}-${trip.route.destination}`
RouteKey(trip) == trip.route.origin \o << "-" >> \o trip.route.destination

\* the share rounded down
OperatorShare_Floor(targetCount) == targetCount \div 3

\* Math.ceil(targetCount / 3), for a whole targetCount
OperatorShare(targetCount) == (targetCount + 2) \div 3

\* the first pass from sortedTrips[i] on: a trip is selected when its
\* occupancy exceeds 40% or when route and operator diversity both hold; the
\* pass ends when targetCount trips are selected
RECURSIVE FirstPass(_, _, _, _, _, _)
FirstPass(sortedTrips, i, targetCount, selectedTrips, usedRoutes, operatorCount) ==
    IF i > Len(sortedTrips) \/ Len(selectedTrips) >= targetCount
    THEN selectedTrips
    ELSE LET trip              == sortedTrips[i]
             operatorTrips     == operatorCount[trip.operatorId]
             isHighOccupancy   == Less(<< 40, 1 >>, getBusOccupancy(trip))
             routeDiversity    == \/ RouteKey(trip) \notin usedRoutes
                                  \/ Cardinality(usedRoutes) < 3
             operatorDiversity == operatorTrips < OperatorShare(targetCount)
         IN  IF isHighOccupancy \/ (routeDiversity /\ operatorDiversity)
             THEN FirstPass(sortedTrips, i + 1, targetCount,
                            Append(selectedTrips, trip),
                            usedRoutes \cup { RouteKey(trip) },
                            [ operatorCount EXCEPT
                                ![trip.operatorId] = operatorTrips + 1 ])
             ELSE FirstPass(sortedTrips, i + 1, targetCount, selectedTrips,
                            usedRoutes, operatorCount)

\* the second pass: the slots left are filled with the trips not selected,
\* in their order
FillRemaining(sortedTrips, selectedTrips, targetCount) ==
    IF Len(selectedTrips) < targetCount
    THEN selectedTrips
           \o SliceFromStart(
                  Filter(sortedTrips,
                         [ k \in 1 .. Len(sortedTrips) |->
                             \A j \in 1 .. Len(selectedTrips) :
                                 selectedTrips[j].id # sortedTrips[k].id ]),
                  targetCount - Len(selectedTrips))
    ELSE selectedTrips

\* the result capped at one trip more than targetCount
smartOccupancyFilter_OneMore(trips, targetCount, config) ==
    LET sortedTrips == sortByOccupancy(trips, MergeOccupancyConfig(config))
    IN  IF Len(sortedTrips) <= targetCount + 1
        THEN sortedTrips
        ELSE SliceFromStart(sortedTrips, targetCount + 1)

\* operatorCount.get(id) || 0: the count is 0 for an operator not yet seen
smartOccupancyFilter(trips, targetCount, config) ==
    TheOnly({ IF Len(sortedTrips) <= targetCount
              THEN sortedTrips
              ELSE TheOnly({ FillRemaining(sortedTrips, selectedTrips, targetCount) :
                      selectedTrips \in
                        { FirstPass(sortedTrips, 1, targetCount, << >>, {},
                                    [ o \in { sortedTrips[k].operatorId :
                                                k \in 1 .. Len(sortedTrips) }
                                        |-> 0 ]) } }) :
              sortedTrips \in
                { sortByOccupancy(trips, MergeOccupancyConfig(config)) } })

----------------------------------------------------------------------------
(* Direct calls of OccupancySorting *)

MaxSorted == 4     \* trips passed to sortByOccupancy and smartOccupancyFilter

\* the trips sorted, without their ids: buses of 40 seats
Occupied(bookings, contentScore, departureTime, origin, destination, operatorId) ==
    [ bookings |-> bookings, bus |-> [ totalSeats |-> 40 ],
      contentScore |-> contentScore, departureTime |-> departureTime,
      route |-> [ origin |-> origin, destination |-> destination ],
      operatorId |-> operatorId ]

\* 75% and 100% occupancy reach the same score 1; two trips at 75% differ in
\* nothing but the departure; 50% with a content score; 5% lies below the
\* default threshold and 10% on it, with a content score of 0
SortedTrips ==
    { Occupied(30, NoContentScore, 2, Ktm, Pkr, "op1"),
      Occupied(40, NoContentScore, 1, Ktm, Pkr, "op1"),
      Occupied(30, NoContentScore, 1, Pkr, Ktm, "op2"),
      Occupied(20, << 1, 2 >>, 1, Ktm, Pkr, "op1"),
      Occupied(2, << 9, 10 >>, 1, Ktm, Pkr, "op2"),
      Occupied(4, Zero, 2, Pkr, Ktm, "op1") }

\* the configs passed: none, nothing dropped and content scores ignored, a
\* high threshold without boost
OccupancyConfigs ==
    { << >>,
      [ minOccupancyThreshold |-> 0, balanceWithContentScore |-> FALSE ],
      [ minOccupancyThreshold |-> 50, occupancyBoostFactor |-> << 1, 1 >> ] }

MaxRouted == 5     \* trips passed to smartOccupancyFilter on four routes

Bkt == << "B", "k", "t" >>

\* trips of four routes and three operators at 30% occupancy and without
\* content score, which keep the order they are passed in, and one at 50%
RoutedTrips ==
    { Occupied(12, NoContentScore, 1, Ktm, Pkr, "op1"),
      Occupied(12, NoContentScore, 1, Pkr, Ktm, "op2"),
      Occupied(12, NoContentScore, 1, Ktm, Bkt, "op3"),
      Occupied(12, NoContentScore, 1, Ktm, Pkr, "op2"),
      Occupied(12, NoContentScore, 1, Bkt, Ktm, "op3"),
      Occupied(20, NoContentScore, 1, Ktm, Pkr, "op1") }

OccupancyCalls ==
    [ fn : { "sortByOccupancy" },
      args : { << t >> : t \in ListsOf(SortedTrips, MaxSorted) }
             \cup { << t, c >> : t \in ListsOf(SortedTrips, MaxSorted),
                                 c \in OccupancyConfigs } ]
    \cup
    [ fn : { "smartOccupancyFilter" },
      args : { << t, n >> : t \in ListsOf(SortedTrips, MaxSorted),
                            n \in 0 .. 3 }
             \cup { << t, n, c >> : t \in ListsOf(SortedTrips, MaxSorted - 1),
                                    n \in 0 .. 3, c \in OccupancyConfigs }
             \cup { << t, 4 >> : t \in ListsOf(RoutedTrips, MaxRouted) } ]

InitOccupancy ==
    /\ isRunning = FALSE
    /\ intervalId = NoTimer
    /\ timers = {}
    /\ pendingInitial = {}
    /\ started = 0
    /\ runs = [ s \in Slots |-> FreeRun ]
    /\ store = [ t \in Trips |->
                   [ price |-> InitPrice(t), originalPrice |-> NoPrice,
                     bookings |-> 0 ] ]
    /\ rv = IdleRevert
    /\ log = NoEvent("init", "none")
    /\ arg \in OccupancyCalls
    /\ ret = NoRet
    /\ pricingConfig = PricingConfig

\* config: Partial<OccupancyConfig> = {}
CallSortByOccupancy ==
    /\ arg.fn = "sortByOccupancy"
    /\ Returns(sortByOccupancy(arg.args[1],
                   IF Len(arg.args) >= 2 THEN arg.args[2] ELSE << >>))

CallSmartOccupancyFilter ==
    /\ arg.fn = "smartOccupancyFilter"
    /\ Returns(smartOccupancyFilter(arg.args[1], arg.args[2],
                   IF Len(arg.args) >= 3 THEN arg.args[3] ELSE << >>))

NextOccupancy ==
    \/ CallSortByOccupancy
    \/ CallSmartOccupancyFilter

SpecOccupancy == InitOccupancy /\ [][NextOccupancy]_vars

----------------------------------------------------------------------------
(* Properties of sortByOccupancy, under SpecOccupancy *)

SortedByOccupancy == arg.fn = "sortByOccupancy" /\ ret.done

\* a before b in the order claimed: a higher finalScore; or the same and a
\* higher occupancy; or both the same and a departure that is not later
InClaimedOrder(a, b) ==
    \/ Less(b.finalScore, a.finalScore)
    \/ /\ a.finalScore = b.finalScore
       /\ \/ Less(b.occupancy, a.occupancy)
          \/ /\ a.occupancy = b.occupancy
             /\ a.departureTime <= b.departureTime

\* C17: sortByOccupancy returns its trips in descending order of finalScore,
\* trips of equal finalScore in descending order of occupancy, and trips
\* equal in both in ascending order of departureTime: every two adjacent trips
\* of the output are in that order.
C17_ThreeLevelOrder ==
    SortedByOccupancy =>
        \A k \in 1 .. Len(ret.value) - 1 :
            InClaimedOrder(ret.value[k], ret.value[k + 1])

\* three trips returned against their input order: the first two differ in
\* occupancy only, the last two in departureTime only
C17_Witness ==
    /\ SortedByOccupancy
    /\ Len(ret.value) = 3
    /\ ret.value[1].finalScore = ret.value[2].finalScore
    /\ Less(ret.value[2].occupancy, ret.value[1].occupancy)
    /\ ret.value[2].finalScore = ret.value[3].finalScore
    /\ ret.value[2].occupancy = ret.value[3].occupancy
    /\ ret.value[2].departureTime < ret.value[3].departureTime
    /\ ret.value[1].id > ret.value[2].id
    /\ ret.value[2].id > ret.value[3].id

\* the scores are balanced in the call
BalancedCall ==
    IF Len(arg.args) >= 2 /\ "balanceWithContentScore" \in DOMAIN arg.args[2]
    THEN arg.args[2].balanceWithContentScore
    ELSE TRUE

\* the factor f of the call for a bus with booked of seats seats taken:
\* occupancyBoostFactor above 60%, lowOccupancyPenalty below 20%, else 1
RefFactor(booked, seats) ==
    IF 100 * booked > 60 * seats
    THEN IF Len(arg.args) >= 2 /\ "occupancyBoostFactor" \in DOMAIN arg.args[2]
         THEN arg.args[2].occupancyBoostFactor ELSE << 3, 2 >>
    ELSE IF 100 * booked < 20 * seats
         THEN IF Len(arg.args) >= 2 /\ "lowOccupancyPenalty" \in DOMAIN arg.args[2]
              THEN arg.args[2].lowOccupancyPenalty ELSE << 1, 2 >>
         ELSE << 1, 1 >>

\* min(1, occupancy / 100 * f) as a fraction in lowest terms
RefOccupancyScore(booked, seats) ==
    LET f == RefFactor(booked, seats)
    IN  IF booked * f[1] >= seats * f[2]
        THEN << 1, 1 >>
        ELSE Frac(booked * f[1], seats * f[2])

\* 0.6 * contentScore + 0.4 * occupancyScore as a fraction in lowest terms
RefBalanced(contentScore, occupancyScore) ==
    Frac(3 * contentScore[1] * occupancyScore[2]
           + 2 * occupancyScore[1] * contentScore[2],
         5 * contentScore[2] * occupancyScore[2])

\* C27: every trip sortByOccupancy returns has occupancyScore =
\* min(1, occupancy/100 * f), f being occupancyBoostFactor above 60%,
\* lowOccupancyPenalty below 20% and 1 otherwise, and has finalScore =
\* 0.6 * contentScore + 0.4 * occupancyScore when balanceWithContentScore is
\* true and the trip carries a contentScore, a contentScore of 0 included, and
\* finalScore = occupancyScore otherwise.
C27_FinalScoreBlend ==
    SortedByOccupancy =>
        \A k \in 1 .. Len(ret.value) :
            /\ ret.value[k].occupancyScore
                 = RefOccupancyScore(ret.value[k].bookings,
                                     ret.value[k].bus.totalSeats)
            /\ ret.value[k].finalScore
                 = IF BalancedCall /\ ret.value[k].contentScore # NoContentScore
                   THEN RefBalanced(ret.value[k].contentScore,
                                    ret.value[k].occupancyScore)
                   ELSE ret.value[k].occupancyScore

\* a penalised trip with a contentScore of 0 is returned with 0.4 times its
\* occupancyScore, next to a boosted trip whose score is capped at 1
C27_Witness ==
    /\ SortedByOccupancy
    /\ BalancedCall
    /\ \E k \in 1 .. Len(ret.value) :
          /\ ret.value[k].contentScore = << 0, 1 >>
          /\ ret.value[k].occupancyScore = << 1, 20 >>
          /\ ret.value[k].finalScore = << 1, 50 >>
    /\ \E k \in 1 .. Len(ret.value) :
          /\ ret.value[k].bookings = 30
          /\ ret.value[k].occupancyScore = << 1, 1 >>

----------------------------------------------------------------------------
(* Properties of smartOccupancyFilter, under SpecOccupancy *)

SmartFiltered == arg.fn = "smartOccupancyFilter" /\ ret.done

TargetCount == arg.args[2]

\* the minimum occupancy of the call, in percent
PassedThreshold ==
    IF Len(arg.args) >= 3 /\ "minOccupancyThreshold" \in DOMAIN arg.args[3]
    THEN arg.args[3].minOccupancyThreshold
    ELSE 10

\* the trips passed in whose occupancy is at least the minimum occupancy
AboveThreshold ==
    { i \in 1 .. Len(arg.args[1]) :
        100 * arg.args[1][i].bookings
          >= PassedThreshold * arg.args[1][i].bus.totalSeats }

\* C12, as stated: smartOccupancyFilter returns at most targetCount trips and
\* at least min(targetCount, candidateCount) trips, candidateCount being the
\* number of trips passed in.
C12_CountAgainstTripsPassed ==
    SmartFiltered =>
        /\ Len(ret.value) <= TargetCount
        /\ Len(ret.value) >= Min2(TargetCount, Len(arg.args[1]))

\* C12, amended: smartOccupancyFilter returns at most targetCount trips and
\* at least min(targetCount, candidateCount) trips, candidateCount being the
\* number of trips passed in whose occupancy is at least minOccupancyThreshold
\* (10% by default).
C12_CountAgainstTripsKept ==
    SmartFiltered =>
        /\ Len(ret.value) <= TargetCount
        /\ Len(ret.value) >= Min2(TargetCount, Cardinality(AboveThreshold))

\* three trips passed and three asked for, one of them below the minimum
\* occupancy: two are returned
C12_Witness ==
    /\ SmartFiltered
    /\ Len(arg.args[1]) = 3
    /\ TargetCount = 3
    /\ Cardinality(AboveThreshold) = 2
    /\ Len(ret.value) = 2

\* the trips of sorted at the positions of chosen, in their order
AtPositions(sorted, chosen) ==
    Filter(sorted, [ k \in 1 .. Len(sorted) |-> k \in chosen ])

\* the trip at position i is taken by a first pass that has taken the
\* positions before: a slot remains, and the trip is above 40% or its operator
\* has fewer than ceil(targetCount/3) trips taken and the routes allow it
TakenInFirstPass(sorted, i, before, routesAllow) ==
    /\ Cardinality(before) < TargetCount
    /\ \/ 100 * sorted[i].bookings > 40 * sorted[i].bus.totalSeats
       \/ /\ 3 * Cardinality({ j \in before :
                                 sorted[j].operatorId = sorted[i].operatorId })
               < TargetCount
          /\ routesAllow

\* the pairs of origin and destination of the trips taken
PairsTaken(sorted, before) ==
    { << sorted[j].route.origin, sorted[j].route.destination >> : j \in before }

\* the routes allow a trip when fewer than 3 pairs are taken or its own pair
\* is among them
PairSeenAllows(sorted, i, before) ==
    \/ Cardinality(PairsTaken(sorted, before)) < 3
    \/ << sorted[i].route.origin, sorted[i].route.destination >>
         \in PairsTaken(sorted, before)

\* the routes allow a trip when fewer than 3 pairs are taken or its own pair
\* is not among them
PairNewAllows(sorted, i, before) ==
    \/ Cardinality(PairsTaken(sorted, before)) < 3
    \/ << sorted[i].route.origin, sorted[i].route.destination >>
         \notin PairsTaken(sorted, before)

\* the result is the trips of the positions taken followed by the best of the
\* others up to targetCount
ResultOfPasses(sorted, taken) ==
    ret.value
      = SliceFromStart(AtPositions(sorted, taken)
                         \o AtPositions(sorted, (1 .. Len(sorted)) \ taken),
                       TargetCount)

\* the trips of the call in the order of sortByOccupancy, where they exceed
\* targetCount
RankedBeyondTarget ==
    { sorted \in { sortByOccupancy(arg.args[1],
                       IF Len(arg.args) >= 3 THEN arg.args[3] ELSE << >>) } :
        Len(sorted) > TargetCount }

\* C24, as stated: in the first pass a trip of at most 40% occupancy is
\* selected if and only if its operator has fewer than ceil(targetCount/3)
\* trips selected so far and either fewer than 3 distinct origin-destination
\* pairs are selected so far or its own pair is already selected; a trip above
\* 40% is selected while slots remain.
C24_PairAlreadySelected ==
    SmartFiltered =>
        \A sorted \in RankedBeyondTarget :
            \E taken \in SUBSET (1 .. Len(sorted)) :
                /\ \A i \in 1 .. Len(sorted) :
                       i \in taken <=>
                           TakenInFirstPass(sorted, i, taken \cap (1 .. i - 1),
                               PairSeenAllows(sorted, i, taken \cap (1 .. i - 1)))
                /\ ResultOfPasses(sorted, taken)

\* C24, amended: in the first pass a trip of at most 40% occupancy is selected
\* if and only if its operator has fewer than ceil(targetCount/3) trips
\* selected so far and either fewer than 3 distinct origin-destination pairs
\* are selected so far or its own pair is not yet selected; a trip above 40%
\* is selected while slots remain.
C24_PairNotYetSelected ==
    SmartFiltered =>
        \A sorted \in RankedBeyondTarget :
            \E taken \in SUBSET (1 .. Len(sorted)) :
                /\ \A i \in 1 .. Len(sorted) :
                       i \in taken <=>
                           TakenInFirstPass(sorted, i, taken \cap (1 .. i - 1),
                               PairNewAllows(sorted, i, taken \cap (1 .. i - 1)))
                /\ ResultOfPasses(sorted, taken)

\* four of five trips asked for: after three pairs the fourth trip, on a pair
\* already selected, is passed over for the fifth, on a new pair
C24_Witness ==
    /\ SmartFiltered
    /\ TargetCount = 4
    /\ Len(arg.args[1]) = 5
    /\ Len(ret.value) = 4
    /\ \A k \in 1 .. 3 : ret.value[k].id = k
    /\ ret.value[4].id = 5
    /\ arg.args[1][4].route = arg.args[1][1].route
    /\ arg.args[1][4].bookings = 12
    /\ arg.args[1][4].operatorId # arg.args[1][3].operatorId
    /\ Cardinality({ arg.args[1][k].route : k \in 1 .. 3 }) = 3

----------------------------------------------------------------------------
(* The writes of a batch, under SpecService *)

\* the trip is SCHEDULED and leaves within [now, now + 7 days]
InPricingWindow(t) ==
    /\ TripInfo(t).status = "SCHEDULED"
    /\ 0 <= TripInfo(t).hoursUntilDeparture
    /\ TripInfo(t).hoursUntilDeparture <= 168

\* the step is taken by an execution of updateTripPrices
BatchStep == log'.op \in { "batch", "tick", "initial", "manual" }

\* the execution of slot s as the step leaves it
RunAfter(s) == IF runs'[s].pc = "free" THEN log'.run ELSE runs'[s]

\* the execution of slot s resumes from the write of trip t, which succeeded
WroteTrip(s, t) ==
    /\ runs[s].pc = "write"
    /\ runs[s].trips[runs[s].i].id = t
    /\ Len(RunAfter(s).updates) = Len(runs[s].updates) + 1

----------------------------------------------------------------------------
(* The config of a price and of its reason, under SpecConfig *)

\* the configs the service can hold
ServiceConfigs ==
    { PricingConfig }
      \cup { MergedPricingConfig(PricingConfig, c) : c \in NewConfigs }

\* the executions of updateTripPrices in flight and the one that just ended
RunsSeen == { runs[s] : s \in Slots } \cup { log.run }

\* C22: for every trip a batch has updated, the new price written and the
\* reason of its PricingUpdate are computed from one and the same pricing
\* config: some config the service held yields both from the trip as listed.
C22_PriceAndReasonFromOneConfig ==
    \A run \in RunsSeen :
        \A n \in 1 .. Len(run.updates) :
            \E m \in 1 .. Len(run.trips) :
                /\ run.trips[m].id = run.updates[n].tripId
                /\ \E config \in ServiceConfigs :
                     /\ run.updates[n].newPrice
                          = calculateDynamicPrice(run.trips[m], config)
                     /\ run.updates[n].reason
                          = getPriceChangeReason(
                                getPricingFactors(run.trips[m], config))

----------------------------------------------------------------------------
(* The fixed point of the batches, under Spec *)

\* the price the next listing of the row computes for trip t
NextComputed(t) ==
    calculateDynamicPrice(PricingTrip(t, store[t]), pricingConfig)

\* the trip as the execution listed it
ListedAs(run, t) ==
    run.trips[CHOOSE m \in 1 .. Len(run.trips) : run.trips[m].id = t]

\* C28: while time, bookings, age and config stay as they are, a trip that a
\* batch has updated is at a fixed point: the price computed from its row is
\* the price of the row, shouldUpdatePrice is false for it, and a batch that
\* lists the trip after the update neither awaits a write of it nor returns a
\* PricingUpdate for it.
C28_UpdatedTripIsFixedPoint ==
    /\ \A t \in Trips :
         store[t].originalPrice # NoPrice =>
             /\ NextComputed(t) = store[t].price
             /\ ~shouldUpdatePrice(store[t].price, NextComputed(t), 2)
    /\ \A s \in Slots :
         runs[s].pc = "write" =>
             runs[s].trips[runs[s].i].originalPrice = NoPrice
    /\ \A n \in 1 .. Len(log.run.updates) :
         ListedAs(log.run, log.run.updates[n].tripId).originalPrice = NoPrice

\* a batch has listed two trips, one of them updated before to another price
\* than it was created with, and has returned without a PricingUpdate
C28_Witness ==
    /\ BatchEnded /\ log.outcome = "returned"
    /\ log.run.failed = {}
    /\ Len(log.run.trips) = 2
    /\ Len(log.result.updates) = 0
    /\ \E m \in 1 .. Len(log.run.trips) :
         /\ log.run.trips[m].originalPrice # NoPrice
         /\ log.run.trips[m].price # log.run.trips[m].originalPrice
         /\ store[log.run.trips[m].id].price = log.run.trips[m].price

----------------------------------------------------------------------------
(* A revert during a batch, under SpecService *)

\* the row of the trip was reverted after the execution listed it: it was
\* listed with an original price and has none now
RevertedSinceListed(s) ==
    /\ runs[s].pc = "write"
    /\ runs[s].trips[runs[s].i].originalPrice # NoPrice
    /\ store[runs[s].trips[runs[s].i].id].originalPrice = NoPrice

\* C29: a revert that completed while a batch is in flight is not undone by
\* the batch: when the write of a trip completes whose row was reverted after
\* the batch listed it, the row keeps the reverted price and no original
\* price.
C29_RevertNotUndone ==
    [][ \A s \in Slots :
          (RevertedSinceListed(s) /\ BatchStep /\ runs'[s] # runs[s]) =>
              store'[runs[s].trips[runs[s].i].id]
                = store[runs[s].trips[runs[s].i].id] ]_vars

----------------------------------------------------------------------------
(* The interval timers of the scheduler, under Spec *)

\* C30: the scheduler holds at most one live interval timer, and none once
\* stop() has cleared intervalId, whatever the number of calls of start()
\* before.
C30_AtMostOneLiveInterval ==
    /\ Cardinality(timers) <= 1
    /\ intervalId = NoTimer => timers = {}
====
